---- MODULE Spec2Model ----
(***************************************************************************)
(* A model of the fraud-scoring core of the URL shortener: the Postgres    *)
(* store (tables, triggers and SQL functions of                            *)
(* supabase-complete-schema.sql), the fixed-window rate limiter            *)
(* check_rate_limit with its TypeScript callers, and the risk aggregator   *)
(* AdvancedFraudDetector.performComprehensiveDetection.                    *)
(*                                                                         *)
(* Time is an integer number of seconds (the clock `now`); a behaviour     *)
(* starts at time 0 and the rows a store already holds then have earlier,  *)
(* negative, timestamps.                                                   *)
(***************************************************************************)
EXTENDS Integers, Sequences, FiniteSets, TLC

VARIABLES
    now,          \* the database clock NOW(), in seconds
    fingerprints, \* table fingerprints: a set of rows
    rate_limits,  \* table rate_limits: a set of rows
    customLimits, \* the customLimits the host passes to checkAdvancedRateLimit
    ret,          \* what the last finished call returned to its caller
    hist,         \* per rate-limit key: the calls executed so far
    procs,        \* the check_rate_limit transactions in flight
    urls,         \* table urls: the rows in insertion order
    url_visits,   \* table url_visits: the rows in insertion order
    risk_logs,    \* table risk_logs: the rows in insertion order
    result,       \* the last evaluation of the risk aggregator
    saved,        \* what the last saveFingerprint returned
    request,      \* how the last request of a page ended
    touched,      \* the identity rows the triggers of the last insert updated
    allowedAt     \* per rate-limit key: the times of the latest allowed calls

rlVars == <<rate_limits, customLimits, ret, hist, procs>>
logVars == <<urls, url_visits, risk_logs, result>>
clientVars == <<saved, request, touched, allowedAt>>
vars == <<now, fingerprints, rlVars, logVars, clientVars>>

----------------------------------------------------------------------------
(* Bounds of the model *)

MaxTicks == 2           \* how often the clock advances in a behaviour
MaxCalls == 12          \* how many rate-limit calls a behaviour records
MaxOtherCalls == 1      \* ... of them for an action type other than url_creation
MaxCustomAttempts == 2  \* the largest customLimits.maxAttempts tried
MaxConcurrentCalls == 4 \* calls made on one key while calls overlap
NumProcs == 2           \* how many rate-limit calls run at the same time
MaxEvaluations == 2     \* how many evaluations of the risk aggregator
MaxNewRows == 1         \* rows a behaviour adds to one table
MaxRedirects == 2       \* redirects one process starts
MaxRequests == 3        \* requests the pages make in a behaviour

(* Program constants *)

Minute == 60                \* INTERVAL '1 minute', in seconds
DefaultMaxAttempts == 10    \* max_attempts of checkRateLimit
DefaultWindowMinutes == 60  \* window_minutes of checkRateLimit
OtherMaxAttempts == 100     \* checkAdvancedRateLimit, not url_creation
OtherWindowMinutes == 5     \* checkAdvancedRateLimit, not url_creation

TickStep == 60 * Minute     \* the clock advances an hour at a time

Plus(a, b) == a + b

\* Math.min, Math.max, LEAST on whole numbers
Min(a, b) == IF a <= b THEN a ELSE b
Max(a, b) == IF a >= b THEN a ELSE b

----------------------------------------------------------------------------
(* JavaScript numbers. The scores are IEEE-754 doubles: 0.1, 0.2 and 0.3   *)
(* are not exact and every + and * rounds to 53 significant bits, ties to  *)
(* even. A double d with 0 <= d < 128 that is 0 or at least 1/16 is a      *)
(* whole number of units 2^-56 and is written <<ip, fh, fl>>:              *)
(*     d = ip + (fh * 2^28 + fl) * 2^-56,   0 <= fh, fl < 2^28.            *)

Limb == 2^28

\* Carry the limbs of an exact sum or product
Exact(ip, fh, fl) ==
    LET h == fh + (fl \div Limb)
    IN <<ip + (h \div Limb), h % Limb, fl % Limb>>

\* The spacing of the doubles around x, in units of 2^-56
UlpOf(x) ==
    IF x[1] >= 64 THEN 1024
    ELSE IF x[1] >= 32 THEN 512
    ELSE IF x[1] >= 16 THEN 256
    ELSE IF x[1] >= 8 THEN 128
    ELSE IF x[1] >= 4 THEN 64
    ELSE IF x[1] >= 2 THEN 32
    ELSE IF x[1] >= 1 THEN 16
    ELSE IF x[2] >= 2^27 THEN 8
    ELSE IF x[2] >= 2^26 THEN 4
    ELSE IF x[2] >= 2^25 THEN 2
    ELSE 1

RoundTowardZero(x) ==
    LET u == UlpOf(x)
    IN <<x[1], x[2], x[3] - (x[3] % u)>>

\* Round an exact value to the nearest double, ties to even
RoundNearestEven(x) ==
    LET u == UlpOf(x)
        r == x[3] % u
        q == x[3] \div u
        up == 2 * r > u \/ (2 * r = u /\ q % 2 = 1)
    IN IF r = 0 THEN x
       ELSE Exact(x[1], x[2], x[3] - r + (IF up THEN u ELSE 0))

FromInt(n) == <<n, 0, 0>>

\* x + y
FAdd(x, y) == RoundNearestEven(Exact(x[1] + y[1], x[2] + y[2], x[3] + y[3]))

\* k * x for a small whole number k
FMul(k, x) == RoundNearestEven(Exact(k * x[1], k * x[2], k * x[3]))

\* x > y
FGt(x, y) ==
    \/ x[1] > y[1]
    \/ x[1] = y[1] /\ x[2] > y[2]
    \/ x[1] = y[1] /\ x[2] = y[2] /\ x[3] > y[3]

Unclamped(x, y) == x

\* Math.min(x, y)
FMin(x, y) == IF FGt(x, y) THEN y ELSE x

\* The literals of detectMLAnomalies as doubles
Lit01 == <<0, 26843545, 161061274>>   \* 0.1 = 0x1999999999999A * 2^-56
Lit02 == <<0, 53687091, 53687092>>    \* 0.2 = 0x33333333333334 * 2^-56
Lit03 == <<0, 80530636, 214748364>>   \* 0.3 = 0x4CCCCCCCCCCCCC * 2^-56
Lit05 == <<0, 2^27, 0>>               \* 0.5

----------------------------------------------------------------------------
(* The device signals of an identity: the JSON columns device_info and     *)
(* browser_info of a fingerprints row, as the detectors read them.         *)

\* A JSON field that holds a number, holds null, or is missing
Undefined == [kind |-> "undefined", n |-> 0]
Null == [kind |-> "null", n |-> 0]
Num(n) == [kind |-> "number", n |-> n]

\* v || 0
OrZero(v) == IF v.kind = "number" THEN v.n ELSE 0

\* v === 0 || v === null
ZeroOrNull(v) == (v.kind = "number" /\ v.n = 0) \/ v.kind = "null"

\* screenResolution.split('x').map(Number); the value "array" is the
\* [width, height] array some collectors store, which has no split()
Resolutions == {"absent", "640x480", "1920x1080", "array"}
Width(res) == IF res = "640x480" THEN 640 ELSE 1920
Height(res) == IF res = "640x480" THEN 480 ELSE 1080

\* platform.toLowerCase().includes('win')
IncludesWin(platform) == platform = "Win32"

\* userAgent.toLowerCase().includes('mobile') || ...includes('android')
IncludesMobile(userAgent) == userAgent = "Mobile Safari"

NoCapabilities == [present |-> FALSE, webgl |-> FALSE, webgl2 |-> FALSE,
                   localStorage |-> FALSE, sessionStorage |-> FALSE]

Capabilities(webgl, webgl2, ls, ss) ==
    [present |-> TRUE, webgl |-> webgl, webgl2 |-> webgl2,
     localStorage |-> ls, sessionStorage |-> ss]

\* device_info IS NULL
NoDeviceInfo ==
    [present |-> FALSE, webdriver |-> FALSE, phantom |-> FALSE,
     selenium |-> FALSE, headless |-> FALSE, automation |-> FALSE,
     hardwareConcurrency |-> Undefined, deviceMemory |-> Undefined,
     plugins |-> "absent", mobile |-> FALSE, touchSupport |-> FALSE,
     platform |-> "", userAgent |-> "", screenResolution |-> "absent",
     canvas |-> "none"]

\* browser_info IS NULL
NoBrowserInfo ==
    [present |-> FALSE, platform |-> "", userAgent |-> "",
     capabilities |-> NoCapabilities]

\* An ordinary desktop browser
PlainDevice ==
    [NoDeviceInfo EXCEPT !.present = TRUE, !.hardwareConcurrency = Num(4),
                         !.deviceMemory = Num(8), !.plugins = "some",
                         !.platform = "Win32", !.userAgent = "Chrome",
                         !.screenResolution = "1920x1080", !.canvas = "c1"]

PlainBrowser ==
    [present |-> TRUE, platform |-> "Win32", userAgent |-> "Chrome",
     capabilities |-> Capabilities(TRUE, TRUE, TRUE, TRUE)]

\* saveFingerprint not called yet. data: the id of the row returned, or
\* "null"; before: the id of the row that had the visitor_id, or "null"
NoSaved == [visitor_id |-> "", write |-> "ok", before |-> "null",
            data |-> "null", n |-> 0]

\* No request made yet. fp: the identity of the page, or "null"; checked:
\* the rate limiter was asked; allowed: what it answered; created, visited:
\* the URL or visit record was written; found: the URL to visit was read;
\* done: the short URL was shown or the browser was sent to the original URL
NoRequest == [kind |-> "none", fp |-> "null", checked |-> FALSE,
              allowed |-> FALSE, created |-> FALSE, visited |-> FALSE,
              found |-> FALSE, done |-> FALSE, n |-> 0]

\* No evaluation made yet
NoResult ==
    [fp |-> "f1", isSuspicious |-> FALSE, riskScore |-> FromInt(0),
     severity |-> 1, mlScore |-> FromInt(0), patterns |-> {},
     severities |-> <<1, 1, 1, 1, 1>>, rules |-> 0, logged |-> 0, n |-> 0,
     role |-> "anon", reads |-> "ok", at |-> 0, url |-> ""]

----------------------------------------------------------------------------
(* The store: identities and rate-limit windows *)

FpIds == {"f1", "f2"}

\* action_type values the rate_limits table accepts
ActionTypes == {"url_creation", "admin_access", "url_visit", "api_call"}

\* action types the callers of the model pass
CalledActionTypes == {"url_creation", "api_call"}

ConcurrentActionTypes == {"url_creation"}
Keys == {"f1"} \X CalledActionTypes

NoLimits == [maxAttempts |-> 0, windowMinutes |-> 0]

RowsOf(rl, fp, at) == {r \in rl : r.fingerprint_id = fp /\ r.action_type = at}

RECURSIVE SumAttempts(_)
SumAttempts(rows) ==
    IF rows = {} THEN 0
    ELSE LET r == CHOOSE x \in rows : TRUE
         IN r.attempts + SumAttempts(rows \ {r})

FingerprintExists(fps, fp) == \E f \in fps : f.id = fp

(* check_rate_limit: the statements of the function, in order *)

Expired(r, window_minutes, t) == r.window_start < t - Minute * window_minutes

KeepOldEntries(rl, fp, at, window_minutes, t) == rl

\* DELETE FROM rate_limits WHERE ... window_start < NOW() - window
CleanOldEntries(rl, fp, at, window_minutes, t) ==
    rl \ {r \in RowsOf(rl, fp, at) : Expired(r, window_minutes, t)}

\* SELECT COALESCE(SUM(attempts), 0) ... window_start >= NOW() - window
CountCurrentAttempts(rl, fp, at, window_minutes, t) ==
    SumAttempts({r \in RowsOf(rl, fp, at) : ~Expired(r, window_minutes, t)})

\* INSERT ... ON CONFLICT (fingerprint_id, action_type) DO UPDATE
RecordAttempt(rl, fp, at, window_minutes, t) ==
    IF RowsOf(rl, fp, at) = {}
    THEN rl \cup {[fingerprint_id |-> fp, action_type |-> at,
                   attempts |-> 1, window_start |-> t]}
    ELSE {IF r \in RowsOf(rl, fp, at)
          THEN [r EXCEPT !.attempts = r.attempts + 1,
                         !.window_start =
                             IF Expired(r, window_minutes, t) THEN t
                             ELSE r.window_start]
          ELSE r : r \in rl}

\* A table without the CHECK on action_type
InsertAcceptedAnyType(fps, fp, at) == FingerprintExists(fps, fp)

\* The INSERT is rejected by the CHECK on action_type and by the foreign key
InsertAccepted(fps, fp, at) == at \in ActionTypes /\ FingerprintExists(fps, fp)

check_rate_limit_above(fps, rl, fp, at, max_attempts, window_minutes, t) ==
    LET cleaned == CleanOldEntries(rl, fp, at, window_minutes, t)
        current_attempts == CountCurrentAttempts(cleaned, fp, at, window_minutes, t)
    IN IF current_attempts > max_attempts
       THEN [status |-> "ok", data |-> FALSE, rl |-> cleaned]
       ELSE IF InsertAccepted(fps, fp, at)
            THEN [status |-> "ok", data |-> TRUE,
                  rl |-> RecordAttempt(cleaned, fp, at, window_minutes, t)]
            ELSE [status |-> "error", data |-> FALSE, rl |-> rl]

check_rate_limit_counting_refusals(fps, rl, fp, at, max_attempts, window_minutes, t) ==
    LET cleaned == CleanOldEntries(rl, fp, at, window_minutes, t)
        current_attempts == CountCurrentAttempts(cleaned, fp, at, window_minutes, t)
    IN IF ~InsertAccepted(fps, fp, at)
       THEN [status |-> "error", data |-> FALSE, rl |-> rl]
       ELSE [status |-> "ok", data |-> ~(current_attempts >= max_attempts),
             rl |-> RecordAttempt(cleaned, fp, at, window_minutes, t)]

\* One whole call, run alone: [status, data, rl]
check_rate_limit(fps, rl, fp, at, max_attempts, window_minutes, t) ==
    LET cleaned == CleanOldEntries(rl, fp, at, window_minutes, t)
        current_attempts == CountCurrentAttempts(cleaned, fp, at, window_minutes, t)
    IN IF current_attempts >= max_attempts
       THEN [status |-> "ok", data |-> FALSE, rl |-> cleaned]
       ELSE IF InsertAccepted(fps, fp, at)
            THEN [status |-> "ok", data |-> TRUE,
                  rl |-> RecordAttempt(cleaned, fp, at, window_minutes, t)]
            ELSE [status |-> "error", data |-> FALSE, rl |-> rl]

----------------------------------------------------------------------------
(* The TypeScript callers of check_rate_limit *)

\* How the remote call ends: answered, failed before it ran, or run and
\* committed with the answer lost on the way back
RpcOutcomes == {"ok", "error", "lost"}

AdvancedLimits(at) ==
    IF customLimits # NoLimits THEN customLimits
    ELSE [maxAttempts |-> IF at = "url_creation" THEN DefaultMaxAttempts
                          ELSE OtherMaxAttempts,
          windowMinutes |-> IF at = "url_creation" THEN DefaultWindowMinutes
                            ELSE OtherWindowMinutes]

\* hist[k]: the answers of the calls for key k, from the first call on an
\* empty table, while they fall inside the window that call opened
\* (first .. first + win) and pass the limits of the first call; the record
\* is closed by the first call that does not
NoHist == [rets |-> <<>>, first |-> 0, max |-> 0, win |-> 0, open |-> TRUE]
ClosedHist == [NoHist EXCEPT !.open = FALSE]

Record(h, data, max, win, t) ==
    IF ~h.open THEN h
    ELSE IF h.rets = <<>>
    THEN [rets |-> <<data>>, first |-> t, max |-> max, win |-> win,
          open |-> TRUE]
    ELSE IF t > h.first + Minute * h.win \/ max # h.max \/ win # h.win
    THEN ClosedHist
    ELSE [h EXCEPT !.rets = Append(h.rets, data)]

\* allowedAt[k]: the times of the calls for key k that returned true, back
\* from the last of them over less than the window of that call
Slide(times, data, win, t) ==
    IF ~data THEN times
    ELSE Append(SelectSeq(times, LAMBDA x : t - x < Minute * win), t)

CallBudget(fp, at) ==
    LET cap == IF at = "url_creation" THEN MaxCalls ELSE MaxOtherCalls
    IN /\ <<fp, at>> \in Keys => Len(hist[<<fp, at>>].rets) < cap
       /\ \A r \in RowsOf(rate_limits, fp, at) : r.attempts < cap

\* What a caller learns from one call: ran = check_rate_limit ran and was
\* committed, data = what it returned, failed = the client saw an error,
\* allowed = what the wrapper returned to its caller
NoCall == [fp |-> "f1", at |-> "url_creation", max |-> 0, win |-> 0, t |-> 0,
           ran |-> FALSE, failed |-> FALSE, data |-> FALSE, allowed |-> FALSE]

FailOpen(failed, data) == IF failed THEN TRUE ELSE data

\* if (error) return false ... return data ... catch: return false
WrapperResult(failed, data) == IF failed THEN FALSE ELSE data

Returned(fp, at, max, win, t, rpc, res) ==
    LET failed == rpc # "ok" \/ res.status # "ok"
    IN [fp |-> fp, at |-> at, max |-> max, win |-> win, t |-> t,
        ran |-> rpc # "error" /\ res.status = "ok",
        failed |-> failed,
        data |-> res.data,
        allowed |-> WrapperResult(failed, res.data)]

\* The remote call made by a wrapper, with the limits the wrapper passes
Rpc(fp, at, max, win, rpc) ==
    LET res == IF rpc = "error"
               THEN [status |-> "error", data |-> FALSE, rl |-> rate_limits]
               ELSE check_rate_limit(fingerprints, rate_limits, fp, at, max, win, now)
    IN /\ CallBudget(fp, at)
       /\ rate_limits' = res.rl
       /\ ret' = Returned(fp, at, max, win, now, rpc, res)
       /\ hist' = IF ret'.ran /\ <<fp, at>> \in Keys
                  THEN [hist EXCEPT ![<<fp, at>>] = Record(@, res.data, max, win, now)]
                  ELSE hist
       /\ allowedAt' = IF ret'.ran /\ <<fp, at>> \in Keys
                       THEN [allowedAt EXCEPT ![<<fp, at>>] =
                               Slide(@, res.data, win, now)]
                       ELSE allowedAt
       /\ UNCHANGED <<now, fingerprints, customLimits, procs, logVars, saved,
                      request, touched>>

checkRateLimit(fp, at, rpc) ==
    Rpc(fp, at, DefaultMaxAttempts, DefaultWindowMinutes, rpc)

checkAdvancedRateLimit(fp, at, rpc) ==
    Rpc(fp, at, AdvancedLimits(at).maxAttempts, AdvancedLimits(at).windowMinutes, rpc)

Tick ==
    /\ now < MaxTicks * TickStep
    /\ now' = now + TickStep
    /\ UNCHANGED <<fingerprints, rlVars, logVars, clientVars>>

----------------------------------------------------------------------------
(* The rate limiter, one call at a time *)

Fingerprint(id) ==
    [id |-> id, visitor_id |-> id, risk_score |-> 0, ml_anomaly_score |-> 0,
     device_info |-> PlainDevice, browser_info |-> PlainBrowser]

ProcIds == 1..NumProcs

Idle == [pc |-> "idle", fp |-> "f1", at |-> "url_creation", max |-> 0, win |-> 0,
         t |-> 0, rows |-> {}, wrote |-> FALSE, current_attempts |-> 0,
         data |-> FALSE]

InitRateLimit ==
    /\ now = 0
    /\ fingerprints = {Fingerprint("f1")}
    /\ rate_limits = {}
    /\ customLimits \in {NoLimits} \cup
          [maxAttempts : 1..MaxCustomAttempts, windowMinutes : {DefaultWindowMinutes}]
    /\ ret = NoCall
    /\ hist = [k \in Keys |-> NoHist]
    /\ procs = [p \in ProcIds |-> Idle]
    /\ saved = NoSaved
    /\ request = NoRequest
    /\ touched = <<>>
    /\ allowedAt = [k \in Keys |-> <<>>]
    /\ urls = <<>>
    /\ url_visits = <<>>
    /\ risk_logs = <<>>
    /\ result = NoResult

NextRateLimit ==
    \/ Tick
    \/ \E fp \in FpIds, at \in CalledActionTypes, rpc \in RpcOutcomes :
          checkRateLimit(fp, at, rpc)
    \/ \E fp \in FpIds, at \in CalledActionTypes, rpc \in RpcOutcomes :
          checkAdvancedRateLimit(fp, at, rpc)

SpecRateLimit == InitRateLimit /\ [][NextRateLimit]_vars

----------------------------------------------------------------------------
(* Claims about the rate limiter called sequentially (SpecRateLimit) *)

UrlCreation == <<"f1", "url_creation">>

\* C1: for sequential calls on one key inside one window, the calls up to
\* and including number maxAttempts return true and every later call
\* returns false
C1_FirstMaxAttemptsAllowed ==
    \A k \in Keys :
        hist[k].open =>
            \A i \in 1..Len(hist[k].rets) : hist[k].rets[i] = (i <= hist[k].max)

\* ten calls allowed and the eleventh refused, with the default limits
C1_Witness ==
    /\ hist[UrlCreation].open
    /\ hist[UrlCreation].max = DefaultMaxAttempts
    /\ Len(hist[UrlCreation].rets) = DefaultMaxAttempts + 1
    /\ hist[UrlCreation].rets[DefaultMaxAttempts]
    /\ ~hist[UrlCreation].rets[DefaultMaxAttempts + 1]

\* The step is a call of check_rate_limit that ran to its RETURN
CallRan == now' = now /\ ret'.ran /\ ret'.t = now

\* C2: once the limit is reached, the first call made more than
\* windowMinutes after windowStart returns true and leaves a fresh window
\* with attempts = 1 and windowStart = the time of that call
C2_FreshWindowAfterExpiry ==
    [][\A r \in rate_limits :
          ( /\ CallRan
            /\ r.fingerprint_id = ret'.fp /\ r.action_type = ret'.at
            /\ r.attempts >= ret'.max
            /\ now > r.window_start + Minute * ret'.win )
          => /\ ret'.data
             /\ RowsOf(rate_limits', r.fingerprint_id, r.action_type) =
                   {[fingerprint_id |-> r.fingerprint_id,
                     action_type |-> r.action_type,
                     attempts |-> 1, window_start |-> now]}]_vars

\* a call was allowed at a time after 0 and found the limit of the first
\* window used up: the record of the first window is closed, the row is fresh
C2_Witness ==
    /\ ret.ran /\ ret.data /\ ret.t = now /\ now > 0
    /\ ret.fp = "f1" /\ ret.at = "url_creation" /\ ret.max = DefaultMaxAttempts
    /\ ~hist[UrlCreation].open
    /\ rate_limits = {[fingerprint_id |-> "f1", action_type |-> "url_creation",
                       attempts |-> 1, window_start |-> now]}

\* C4: a call that returns false changes neither attempts nor windowStart
C4_RefusalLeavesCounter ==
    [][(CallRan /\ ~ret'.data) => rate_limits' = rate_limits]_vars

\* the last call was refused inside an unexpired window whose limit is used up
C4_Witness ==
    /\ ret.ran /\ ~ret.data /\ ret.t = now
    /\ \E r \in RowsOf(rate_limits, ret.fp, ret.at) :
          r.attempts = ret.max /\ ~Expired(r, ret.win, now)

\* C5: when the store call fails (error returned or exception thrown),
\* checkRateLimit and checkAdvancedRateLimit return false
C5_FailClosed == ret.failed => ~ret.allowed

\* the function ran and answered true, the answer was lost, the caller
\* was told false
C5_Witness == ret.failed /\ ret.ran /\ ret.data /\ ~ret.allowed

----------------------------------------------------------------------------
(* Rate-limit calls running concurrently: each call is one transaction at   *)
(* READ COMMITTED, its statements interleaved with those of the other     *)
(* calls. A statement reads the committed rows and the call's own writes;  *)
(* a write waits for the transaction that holds the row.                   *)

KeyRows(rl, p) == RowsOf(rl, procs[p].fp, procs[p].at)

\* The rows the statements of p see
View(p) ==
    IF procs[p].wrote
    THEN (rate_limits \ KeyRows(rate_limits, p)) \cup procs[p].rows
    ELSE rate_limits

\* Another transaction has written the rows of p's key and not committed
RowHeld(p) ==
    \E q \in ProcIds \ {p} :
        /\ procs[q].pc # "idle" /\ procs[q].wrote
        /\ procs[q].fp = procs[p].fp /\ procs[q].at = procs[p].at

\* Calls in flight
InFlight == {p \in ProcIds : procs[p].pc # "idle"}

ConcurrentBudget(at) ==
    /\ hist[<<"f1", at>>].open
    /\ Len(hist[<<"f1", at>>].rets) + Cardinality(InFlight) < MaxConcurrentCalls

\* supabase.rpc('check_rate_limit', ...): the transaction starts, NOW() is
\* fixed for all its statements
Begin(p, fp, at) ==
    /\ procs[p].pc = "idle"
    /\ ConcurrentBudget(at)
    /\ procs' = [procs EXCEPT ![p] =
          [Idle EXCEPT !.pc = "delete", !.fp = fp, !.at = at, !.t = now,
                       !.max = AdvancedLimits(at).maxAttempts,
                       !.win = AdvancedLimits(at).windowMinutes]]
    /\ UNCHANGED <<now, fingerprints, rate_limits, customLimits, ret, hist, logVars, clientVars>>

\* DELETE FROM rate_limits ... (clean old entries)
Delete(p) ==
    LET me == procs[p]
        after == CleanOldEntries(View(p), me.fp, me.at, me.win, me.t)
    IN /\ me.pc = "delete"
       /\ after # View(p) => ~RowHeld(p)
       /\ procs' = [procs EXCEPT ![p] =
             IF after # View(p)
             THEN [me EXCEPT !.pc = "select", !.wrote = TRUE,
                             !.rows = RowsOf(after, me.fp, me.at)]
             ELSE [me EXCEPT !.pc = "select"]]
       /\ UNCHANGED <<now, fingerprints, rate_limits, customLimits, ret, hist, logVars, clientVars>>

\* SELECT COALESCE(SUM(attempts), 0) INTO current_attempts, and the IF
Select(p) ==
    LET me == procs[p]
        n == CountCurrentAttempts(View(p), me.fp, me.at, me.win, me.t)
    IN /\ me.pc = "select"
       /\ procs' = [procs EXCEPT ![p] =
             [me EXCEPT !.current_attempts = n,
                        !.pc = IF n >= me.max THEN "commit" ELSE "insert",
                        !.data = ~(n >= me.max)]]
       /\ UNCHANGED <<now, fingerprints, rate_limits, customLimits, ret, hist, logVars, clientVars>>

\* INSERT ... ON CONFLICT DO UPDATE (record this attempt)
Insert(p) ==
    LET me == procs[p]
    IN /\ me.pc = "insert"
       /\ ~RowHeld(p)
       /\ procs' = [procs EXCEPT ![p] =
             IF InsertAccepted(fingerprints, me.fp, me.at)
             THEN [me EXCEPT !.pc = "commit", !.wrote = TRUE,
                             !.rows = RowsOf(RecordAttempt(View(p), me.fp, me.at,
                                                           me.win, me.t),
                                             me.fp, me.at)]
             ELSE [me EXCEPT !.pc = "rollback"]]
       /\ UNCHANGED <<now, fingerprints, rate_limits, customLimits, ret, hist, logVars, clientVars>>

\* RETURN: the transaction commits and the caller gets the answer
Commit(p) ==
    LET me == procs[p]
        res == [status |-> "ok", data |-> me.data]
    IN /\ me.pc = "commit"
       /\ rate_limits' = View(p)
       /\ ret' = Returned(me.fp, me.at, me.max, me.win, me.t, "ok", res)
       /\ hist' = IF <<me.fp, me.at>> \in Keys
                  THEN [hist EXCEPT ![<<me.fp, me.at>>] =
                           Record(@, me.data, me.max, me.win, me.t)]
                  ELSE hist
       /\ allowedAt' = IF <<me.fp, me.at>> \in Keys
                       THEN [allowedAt EXCEPT ![<<me.fp, me.at>>] =
                               Slide(@, me.data, me.win, me.t)]
                       ELSE allowedAt
       /\ procs' = [procs EXCEPT ![p] = Idle]
       /\ UNCHANGED <<now, fingerprints, customLimits, logVars, saved, request,
                      touched>>

\* The INSERT raised: the transaction is rolled back, the caller gets the error
Rollback(p) ==
    LET me == procs[p]
        res == [status |-> "error", data |-> FALSE]
    IN /\ me.pc = "rollback"
       /\ ret' = Returned(me.fp, me.at, me.max, me.win, me.t, "ok", res)
       /\ procs' = [procs EXCEPT ![p] = Idle]
       /\ UNCHANGED <<now, fingerprints, rate_limits, customLimits, hist, logVars, clientVars>>

InitConcurrent ==
    /\ now = 0
    /\ fingerprints = {Fingerprint("f1")}
    /\ rate_limits = {}
    /\ customLimits \in
          [maxAttempts : 1..MaxCustomAttempts, windowMinutes : {DefaultWindowMinutes}]
    /\ ret = NoCall
    /\ hist = [k \in Keys |-> NoHist]
    /\ procs = [p \in ProcIds |-> Idle]
    /\ saved = NoSaved
    /\ request = NoRequest
    /\ touched = <<>>
    /\ allowedAt = [k \in Keys |-> <<>>]
    /\ urls = <<>>
    /\ url_visits = <<>>
    /\ risk_logs = <<>>
    /\ result = NoResult

NextConcurrent ==
    \/ Tick
    \/ \E p \in ProcIds, fp \in FpIds, at \in ConcurrentActionTypes : Begin(p, fp, at)
    \/ \E p \in ProcIds : Delete(p)
    \/ \E p \in ProcIds : Select(p)
    \/ \E p \in ProcIds : Insert(p)
    \/ \E p \in ProcIds : Commit(p)
    \/ \E p \in ProcIds : Rollback(p)

SpecConcurrent == InitConcurrent /\ [][NextConcurrent]_vars

----------------------------------------------------------------------------
(* Claims about overlapping calls (SpecConcurrent) *)

RECURSIVE NumTrue(_)
NumTrue(seq) ==
    IF seq = <<>> THEN 0
    ELSE (IF Head(seq) THEN 1 ELSE 0) + NumTrue(Tail(seq))

\* C3: with calls on one key under way at the same time, the number of calls
\* that return true within one window never exceeds maxAttempts, and once
\* no call is in flight the stored attempts equals the number allowed
C3_AtomicCheckAndIncrement ==
    \A k \in Keys :
        hist[k].open =>
            /\ NumTrue(hist[k].rets) <= hist[k].max
            /\ InFlight = {} =>
                  SumAttempts(RowsOf(rate_limits, k[1], k[2])) = NumTrue(hist[k].rets)

----------------------------------------------------------------------------
(* Row-level security: what the caller's role may do to a table.           *)
(* The public client is "anon"; a signed-in admin is "authenticated".      *)

Roles == {"anon", "authenticated"}

Policy(role, table, cmd) ==
    \/ role = "authenticated"
    \/ table = "urls" /\ cmd \in {"INSERT", "SELECT", "UPDATE"}
    \/ table = "fingerprints" /\ cmd \in {"INSERT", "SELECT"}
    \/ table = "url_visits" /\ cmd = "INSERT"
    \/ table = "rate_limits"

\* The rows of a table a SELECT of the role returns
Visible(role, table, rows) == IF Policy(role, table, "SELECT") THEN rows ELSE <<>>

\* How a request to the store ends apart from what the store decides
StoreOutcomes == {"ok", "error"}

HasFingerprint(fp) == \E f \in fingerprints : f.id = fp
FingerprintRow(fp) == CHOOSE f \in fingerprints : f.id = fp

----------------------------------------------------------------------------
(* The detectors of AdvancedFraudDetector. A detector adds, for every      *)
(* finding that applies, its score to riskScore, raises severity to the    *)
(* finding's severity and pushes its pattern.                              *)

Finding(applies, score, severity, pattern) ==
    [applies |-> applies, score |-> score, severity |-> severity,
     pattern |-> pattern]

RECURSIVE SumScores(_)
SumScores(fs) ==
    IF fs = <<>> THEN 0
    ELSE (IF Head(fs).applies THEN Head(fs).score ELSE 0) + SumScores(Tail(fs))

RECURSIVE MaxSeverity(_)
MaxSeverity(fs) ==
    IF fs = <<>> THEN 1
    ELSE Max(IF Head(fs).applies THEN Head(fs).severity ELSE 1,
             MaxSeverity(Tail(fs)))

Detected(fs) ==
    [riskScore |-> SumScores(fs),
     severity |-> MaxSeverity(fs),
     patterns |-> {fs[i].pattern : i \in {j \in 1..Len(fs) : fs[j].applies}}]

createEmptyResult == [riskScore |-> 0, severity |-> 1, patterns |-> {}]

\* A finding list cut where the detector threw: the catch keeps what was
\* accumulated before
Upto(fs, n) == SubSeq(fs, 1, n)

\* A detector that also looks at the stored risk score of the identity
detectMultiAccountReuse_reading_score(fp, role, reads) ==
    IF reads # "ok" \/ ~HasFingerprint(fp) THEN createEmptyResult
    ELSE Detected(<<Finding(FingerprintRow(fp).risk_score > 0, 1, 1,
                            "multiple_accounts")>>)

detectMultiAccountReuse(fp, role, reads) ==
    IF reads # "ok" \/ ~HasFingerprint(fp) THEN createEmptyResult
    ELSE LET me == FingerprintRow(fp)
             duplicates == {f \in fingerprints :
                               f.visitor_id = me.visitor_id /\ f.id # fp}
             similarDevices == {f \in fingerprints :
                                   /\ f.id # fp
                                   /\ f.device_info.present
                                   \* canvas, webgl or audio equal: the
                                   \* model keeps one signature per device
                                   /\ f.device_info.canvas = me.device_info.canvas}
         IN Detected(<<
              Finding(duplicates # {}, 4, 4, "duplicate_fingerprint"),
              Finding(me.device_info.present /\ Cardinality(similarDevices) > 2,
                      3, 3, "similar_device_signature")>>)

\* The URLs of the identity created in the last hour, as the query returns them
RecentUrls(fp, role) ==
    SelectSeq(Visible(role, "urls", urls),
              LAMBDA u : u.fingerprint_id = fp /\ u.created_at >= now - 60 * 60)

\* timeGaps: 0 for the first row, else the distance to the row before;
\* those below one minute are kept
TimeGaps(recentUrls) ==
    {i \in 1..Len(recentUrls) :
        (IF i = 1 THEN 0
         ELSE recentUrls[i].created_at - recentUrls[i - 1].created_at) < 60}

\* A detector that looks back one minute instead of one hour
detectHighVelocity_last_minute(fp, role, reads) ==
    IF reads # "ok" THEN createEmptyResult
    ELSE LET recentUrls ==
                 SelectSeq(Visible(role, "urls", urls),
                           LAMBDA u : u.fingerprint_id = fp /\ u.created_at >= now - 60)
             urlCount == Len(recentUrls)
         IN Detected(<<
              Finding(urlCount > 20, 4, 4, "extreme_velocity"),
              Finding(urlCount > 10 /\ ~(urlCount > 20), 3, 3, "high_velocity"),
              Finding(urlCount > 5 /\ ~(urlCount > 10), 2, 2, "moderate_velocity"),
              Finding(Cardinality(TimeGaps(recentUrls)) > 3, 2, 2, "burst_pattern")>>)

detectHighVelocity(fp, role, reads) ==
    IF reads # "ok" THEN createEmptyResult
    ELSE LET recentUrls == RecentUrls(fp, role)
             urlCount == Len(recentUrls)
         IN Detected(<<
              Finding(urlCount > 20, 4, 4, "extreme_velocity"),
              Finding(urlCount > 10 /\ ~(urlCount > 20), 3, 3, "high_velocity"),
              Finding(urlCount > 5 /\ ~(urlCount > 10), 2, 2, "moderate_velocity"),
              Finding(Cardinality(TimeGaps(recentUrls)) > 3, 2, 2, "burst_pattern")>>)

\* The visits of the identity in the last 24 hours
RecentVisits(fp, role) ==
    SelectSeq(Visible(role, "url_visits", url_visits),
              LAMBDA v : v.fingerprint_id = fp /\ v.visited_at >= now - 24 * 60 * 60)

detectClickFraud(fp, role, reads) ==
    IF reads # "ok" THEN createEmptyResult
    ELSE LET visits == RecentVisits(fp, role)
             visitCount == Len(visits)
             rapidClicks == {i \in 2..visitCount :
                                visits[i].visited_at - visits[i - 1].visited_at < 5}
             directAccess == {i \in 1..visitCount : visits[i].referrer = ""}
         IN IF visitCount = 0 THEN createEmptyResult
            ELSE Detected(<<
                   Finding(visitCount > 100, 3, 3, "high_visit_volume"),
                   Finding(Cardinality(rapidClicks) > 5, 2, 2, "rapid_clicking"),
                   \* directAccess.length > visitCount * 0.8: the double
                   \* visitCount * 0.8 is the whole number 4 * visitCount / 5
                   \* whenever that is whole, so the test is 5 d > 4 n
                   Finding(5 * Cardinality(directAccess) > 4 * visitCount,
                           2, 2, "direct_access")>>)

detectBotSignals(fp, role, reads) ==
    IF reads # "ok" \/ ~HasFingerprint(fp) THEN createEmptyResult
    ELSE LET deviceInfo == FingerprintRow(fp).device_info
         IN IF ~deviceInfo.present THEN createEmptyResult
            ELSE Detected(<<
                   Finding(deviceInfo.webdriver, 4, 4, "webdriver"),
                   Finding(deviceInfo.phantom, 4, 4, "phantomjs"),
                   Finding(deviceInfo.selenium, 4, 4, "selenium"),
                   Finding(deviceInfo.headless, 3, 3, "headless"),
                   Finding(deviceInfo.automation, 3, 3, "automation"),
                   Finding(ZeroOrNull(deviceInfo.hardwareConcurrency),
                           2, 2, "missing_hardware"),
                   Finding(ZeroOrNull(deviceInfo.deviceMemory),
                           2, 2, "missing_memory"),
                   Finding(deviceInfo.plugins \in {"absent", "empty"},
                           1, 1, "no_plugins")>>)

\* a || b || ''
OrElse(a, b) == IF a # "" THEN a ELSE b

detectDeviceAnomalies(fp, role, reads) ==
    IF reads # "ok" \/ ~HasFingerprint(fp) THEN createEmptyResult
    ELSE LET deviceInfo == FingerprintRow(fp).device_info
             browserInfo == FingerprintRow(fp).browser_info
             userAgent == OrElse(deviceInfo.userAgent, browserInfo.userAgent)
             platform == OrElse(deviceInfo.platform, browserInfo.platform)
             screenResolution == deviceInfo.screenResolution
             caps == browserInfo.capabilities
             findings == <<
                Finding(deviceInfo.mobile /\ IncludesWin(platform),
                        2, 2, "mobile_desktop_mismatch"),
                Finding(deviceInfo.touchSupport /\ ~IncludesMobile(userAgent),
                        1, 1, "touch_mismatch"),
                Finding(/\ screenResolution \notin {"absent", "array"}
                        /\ (Width(screenResolution) < 800
                              \/ Height(screenResolution) < 600),
                        1, 1, "unusual_resolution"),
                Finding(caps.present /\ ~caps.webgl /\ ~caps.webgl2,
                        1, 1, "no_webgl"),
                Finding(caps.present /\ (~caps.localStorage \/ ~caps.sessionStorage),
                        1, 1, "no_storage")>>
         IN IF ~(deviceInfo.present /\ browserInfo.present) THEN createEmptyResult
            \* screenResolution.split is not a function: caught after the
            \* first two checks
            ELSE IF screenResolution = "array" THEN Detected(Upto(findings, 2))
            ELSE Detected(findings)

\* detectMLAnomalies: the anomaly score, a double
detectMLAnomalies(fp, role, reads) ==
    IF reads # "ok" \/ ~HasFingerprint(fp) THEN FromInt(0)
    ELSE LET deviceInfo == FingerprintRow(fp).device_info
             browserInfo == FingerprintRow(fp).browser_info
             caps == browserInfo.capabilities
             hasCaps == browserInfo.present /\ caps.present
             res == deviceInfo.screenResolution
             \* features; without device_info they are undefined and every
             \* test on them is false
             missingHardware ==
                 /\ deviceInfo.present
                 /\ OrZero(deviceInfo.hardwareConcurrency) = 0
                 /\ OrZero(deviceInfo.deviceMemory) = 0
             botSignals ==
                 IF ~deviceInfo.present THEN 0
                 ELSE (IF deviceInfo.webdriver THEN 1 ELSE 0)
                    + (IF deviceInfo.phantom THEN 1 ELSE 0)
                    + (IF deviceInfo.selenium THEN 1 ELSE 0)
                    + (IF deviceInfo.headless THEN 1 ELSE 0)
                    + (IF deviceInfo.automation THEN 1 ELSE 0)
             screenArea ==
                 IF deviceInfo.present /\ res # "absent"
                 THEN Width(res) * Height(res) ELSE 0
             missingFeatures ==
                   (IF hasCaps /\ caps.webgl THEN 0 ELSE 1)
                 + (IF hasCaps /\ caps.localStorage THEN 0 ELSE 1)
                 + (IF hasCaps /\ caps.sessionStorage THEN 0 ELSE 1)
             s1 == IF missingHardware THEN FAdd(FromInt(0), Lit03) ELSE FromInt(0)
             s2 == IF botSignals > 0 THEN FAdd(s1, FMul(botSignals, Lit02)) ELSE s1
             s3 == IF screenArea > 0 /\ screenArea < 480000
                   THEN FAdd(s2, Lit02) ELSE s2
             s4 == IF missingFeatures > 1
                   THEN FAdd(s3, FMul(missingFeatures, Lit01)) ELSE s3
         IN \* screenResolution.split is not a function: the catch returns 0
            IF deviceInfo.present /\ res = "array" THEN FromInt(0)
            ELSE FMin(s4, FromInt(1))

\* isSuspicious: totalRiskScore > 3
Suspicious(totalRiskScore) == FGt(totalRiskScore, FromInt(3))

\* The FraudDetectionResult of performComprehensiveDetection
Evaluate(fp, role, reads) ==
    LET multiAccountResult == detectMultiAccountReuse(fp, role, reads)
        velocityResult == detectHighVelocity(fp, role, reads)
        clickFraudResult == detectClickFraud(fp, role, reads)
        botResult == detectBotSignals(fp, role, reads)
        deviceAnomalyResult == detectDeviceAnomalies(fp, role, reads)
        anomalyScore == detectMLAnomalies(fp, role, reads)
        rules == multiAccountResult.riskScore + velocityResult.riskScore
                 + clickFraudResult.riskScore + botResult.riskScore
                 + deviceAnomalyResult.riskScore
        totalRiskScore ==
            FMin(FAdd(FromInt(rules), FMul(5, anomalyScore)), FromInt(10))
        severities == <<multiAccountResult.severity, velocityResult.severity,
                        clickFraudResult.severity, botResult.severity,
                        deviceAnomalyResult.severity>>
    IN [fp |-> fp,
        isSuspicious |-> Suspicious(totalRiskScore),
        riskScore |-> totalRiskScore,
        severity |-> Max(severities[1], Max(severities[2], Max(severities[3],
                         Max(severities[4], severities[5])))),
        mlScore |-> anomalyScore,
        patterns |-> multiAccountResult.patterns \cup velocityResult.patterns
                     \cup clickFraudResult.patterns \cup botResult.patterns
                     \cup deviceAnomalyResult.patterns,
        severities |-> severities,
        rules |-> rules]

----------------------------------------------------------------------------
(* The store: inserts with their constraints, policies and triggers *)

\* risk_type values the risk_logs table accepts
RiskTypes ==
    {"duplicate_fingerprint", "multiple_accounts", "spam_attempt",
     "suspicious_pattern", "rapid_creation", "high_velocity",
     "extreme_velocity", "burst_pattern", "high_visit_volume",
     "rapid_clicking", "direct_access", "suspicious_url", "webdriver",
     "phantom", "selenium", "headless", "automation",
     "mobile_desktop_mismatch", "touch_mismatch", "unusual_resolution",
     "no_webgl", "no_storage", "missing_hardware", "no_plugins",
     "similar_device_signature", "comprehensive_fraud_detection",
     "ml_anomaly_detected"}

\* CHECK (risk_score >= 0 AND risk_score <= 10)
RiskScoreCheck(score) == score >= 0 /\ score <= 10

\* calculate_risk_score, run with the caller's role on the given tables
calculate_risk_score_raw(fps, us, vs, rls, fp, role, t) ==
    LET url_count ==
            Len(SelectSeq(Visible(role, "urls", us), LAMBDA u : u.fingerprint_id = fp))
        visit_count ==
            Len(SelectSeq(Visible(role, "url_visits", vs), LAMBDA v : v.fingerprint_id = fp))
        risk_log_count ==
            Len(SelectSeq(Visible(role, "risk_logs", rls), LAMBDA r : r.fingerprint_id = fp))
        duplicate_fingerprint_count ==
            Cardinality({f \in fps : \E g \in fps :
                            g.id = fp /\ f.visitor_id = g.visitor_id})
        rapid_creation_count ==
            Len(SelectSeq(Visible(role, "urls", us),
                  LAMBDA u : u.fingerprint_id = fp /\ u.created_at > t - 60 * 60))
        recent_risk_logs ==
            Len(SelectSeq(Visible(role, "risk_logs", rls),
                  LAMBDA r : r.fingerprint_id = fp
                             /\ r.created_at > t - 24 * 60 * 60))
    IN (IF url_count > 20 THEN 3 ELSE IF url_count > 10 THEN 2
        ELSE IF url_count > 5 THEN 1 ELSE 0)
     + (IF visit_count > 200 THEN 3 ELSE IF visit_count > 100 THEN 2
        ELSE IF visit_count > 50 THEN 1 ELSE 0)
     + risk_log_count
     + (IF duplicate_fingerprint_count > 1 THEN 4 ELSE 0)
     + (IF rapid_creation_count > 5 THEN 2 ELSE 0)
     + (IF recent_risk_logs > 3 THEN 2 ELSE 0)

\* RETURN LEAST(score, 10)
calculate_risk_score(fps, us, vs, rls, fp, role, t) ==
    Min(calculate_risk_score_raw(fps, us, vs, rls, fp, role, t), 10)

update_risk_score_unbounded(fps, us, vs, rls, fp, role, t) ==
    LET score == calculate_risk_score_raw(fps, us, vs, rls, fp, role, t)
    IN IF ~Policy(role, "fingerprints", "UPDATE") THEN [ok |-> TRUE, fps |-> fps]
       ELSE [ok |-> TRUE,
             fps |-> {IF f.id = fp THEN [f EXCEPT !.risk_score = score]
                      ELSE f : f \in fps}]

\* The trigger function update_risk_score, run as the caller: [ok, fps].
\* The UPDATE touches the row only when the role may update fingerprints
update_risk_score(fps, us, vs, rls, fp, role, t) ==
    LET score == calculate_risk_score(fps, us, vs, rls, fp, role, t)
    IN IF ~Policy(role, "fingerprints", "UPDATE") THEN [ok |-> TRUE, fps |-> fps]
       ELSE IF ~RiskScoreCheck(score) /\ (\E f \in fps : f.id = fp)
            THEN [ok |-> FALSE, fps |-> fps]
            ELSE [ok |-> TRUE,
                  fps |-> {IF f.id = fp THEN [f EXCEPT !.risk_score = score]
                           ELSE f : f \in fps}]

\* INSERT INTO risk_logs with its trigger, on the given tables at time t:
\* [ok, risk_logs, fingerprints]
InsertRiskLogOn(fps, us, vs, rls0, fp, risk_type, severity, role, write, t) ==
    LET rls == Append(rls0, [fingerprint_id |-> fp, risk_type |-> risk_type,
                             severity |-> severity, created_at |-> t])
        trg == update_risk_score(fps, us, vs, rls, fp, role, t)
        ok == /\ write = "ok"
              /\ Policy(role, "risk_logs", "INSERT")
              /\ risk_type \in RiskTypes
              /\ severity >= 1 /\ severity <= 5
              /\ FingerprintExists(fps, fp)
              /\ trg.ok
    IN IF ok THEN [ok |-> TRUE, risk_logs |-> rls, fingerprints |-> trg.fps]
       ELSE [ok |-> FALSE, risk_logs |-> rls0, fingerprints |-> fps]

\* INSERT INTO risk_logs with its trigger: [ok, risk_logs, fingerprints]
InsertRiskLog(fp, risk_type, severity, role, write) ==
    InsertRiskLogOn(fingerprints, urls, url_visits, risk_logs, fp, risk_type,
                    severity, role, write, now)

\* INSERT INTO urls ... RETURNING with its triggers, on the given tables at
\* time t: [ok, urls, fingerprints]
InsertUrlOn(fps, us0, vs, rls, fp, role, write, t) ==
    LET us == Append(us0, [id |-> Len(us0) + 1, fingerprint_id |-> fp,
                           created_at |-> t, click_count |-> 0])
        trg == update_risk_score(fps, us, vs, rls, fp, role, t)
        ok == /\ write = "ok"
              /\ Policy(role, "urls", "INSERT") /\ Policy(role, "urls", "SELECT")
              /\ FingerprintExists(fps, fp)
              /\ trg.ok
    IN IF ok THEN [ok |-> TRUE, urls |-> us, fingerprints |-> trg.fps]
       ELSE [ok |-> FALSE, urls |-> us0, fingerprints |-> fps]

\* INSERT INTO urls ... RETURNING with its triggers: [ok, urls, fingerprints]
InsertUrl(fp, role, write) ==
    InsertUrlOn(fingerprints, urls, url_visits, risk_logs, fp, role, write, now)

\* INSERT INTO url_visits ... RETURNING with its triggers, on the given
\* tables at time t. The triggers fire in the order of their names: the
\* visitor's risk score, then the click count of the URL, whose UPDATE fires
\* the risk score of the URL's identity
InsertVisitOn(fps, us0, vs0, rls, url_id, fp, referrer, role, write, t) ==
    LET vs == Append(vs0, [url_id |-> url_id, fingerprint_id |-> fp,
                           visited_at |-> t, referrer |-> referrer])
        trg1 == update_risk_score(fps, us0, vs, rls, fp, role, t)
        us == [i \in 1..Len(us0) |->
                 IF us0[i].id = url_id /\ Policy(role, "urls", "UPDATE")
                 THEN [us0[i] EXCEPT !.click_count = @ + 1] ELSE us0[i]]
        owner == us0[url_id].fingerprint_id
        trg2 == IF Policy(role, "urls", "UPDATE")
                THEN update_risk_score(trg1.fps, us, vs, rls, owner, role, t)
                ELSE trg1
        ok == /\ write = "ok"
              /\ Policy(role, "url_visits", "INSERT")
              /\ Policy(role, "url_visits", "SELECT")
              /\ url_id \in 1..Len(us0)
              /\ FingerprintExists(fps, fp)
              /\ trg1.ok /\ trg2.ok
    IN IF ok THEN [ok |-> TRUE, url_visits |-> vs, urls |-> us,
                   fingerprints |-> trg2.fps]
       ELSE [ok |-> FALSE, url_visits |-> vs0, urls |-> us0,
             fingerprints |-> fps]

\* INSERT INTO url_visits ... RETURNING with its triggers
InsertVisit(url_id, fp, referrer, role, write) ==
    InsertVisitOn(fingerprints, urls, url_visits, risk_logs, url_id, fp,
                  referrer, role, write, now)

\* The identity rows an UPDATE fingerprints ... WHERE id = fp of a trigger
\* changes, run as the caller
RowsUpdated(fps, fp, role) ==
    IF Policy(role, "fingerprints", "UPDATE") /\ FingerprintExists(fps, fp)
    THEN <<fp>> ELSE <<>>

\* The identity rows updated by the triggers of an INSERT INTO urls, one
\* entry for every UPDATE: last activity, then risk score
UrlInsertUpdates(fps, fp, role) ==
    RowsUpdated(fps, fp, role) \o RowsUpdated(fps, fp, role)

\* ... of an INSERT INTO url_visits: last activity and risk score of the
\* visitor, then through the UPDATE of the URL the risk score of its owner
VisitInsertUpdates(fps, us, url_id, fp, role) ==
    RowsUpdated(fps, fp, role) \o RowsUpdated(fps, fp, role)
    \o (IF Policy(role, "urls", "UPDATE")
        THEN RowsUpdated(fps, us[url_id].fingerprint_id, role) ELSE <<>>)

\* ... of an INSERT INTO risk_logs: the risk score
RiskLogInsertUpdates(fps, fp, role) == RowsUpdated(fps, fp, role)

----------------------------------------------------------------------------
(* The operations of the client *)

\* The upsert of saveFingerprint with .select().single(): [ok, data,
\* fingerprints]. ON CONFLICT DO UPDATE needs the right to update the row
UpsertFingerprint(fps, visitor_id, device_info, browser_info, role, write) ==
    LET fresh == [id |-> visitor_id, visitor_id |-> visitor_id, risk_score |-> 0,
                  \* DEFAULT 0, in hundredths: the upsert does not name the column
                  ml_anomaly_score |-> 0,
                  device_info |-> device_info, browser_info |-> browser_info]
        conflict == \E f \in fps : f.visitor_id = visitor_id
        ok == /\ write = "ok"
              /\ Policy(role, "fingerprints", "INSERT")
              /\ conflict => Policy(role, "fingerprints", "UPDATE")
              /\ RiskScoreCheck(fresh.risk_score)
        row == IF conflict
               THEN LET old == CHOOSE f \in fps : f.visitor_id = visitor_id
                    IN [fresh EXCEPT !.id = old.id,
                                     !.ml_anomaly_score = old.ml_anomaly_score]
               ELSE fresh
    IN IF ok THEN [ok |-> TRUE, data |-> row.id,
                   fingerprints |-> {f \in fps : f.visitor_id # visitor_id}
                                    \cup {row}]
       ELSE [ok |-> FALSE, data |-> "null", fingerprints |-> fps]

\* saveFingerprint: upsert on visitor_id, risk_score: 0; returns the row, or
\* null on an error
saveFingerprint(visitor_id, device_info, browser_info, role, write) ==
    /\ \E up \in {UpsertFingerprint(fingerprints, visitor_id, device_info,
                                     browser_info, role, write)} :
          /\ fingerprints' = up.fingerprints
          /\ saved' = [visitor_id |-> visitor_id, write |-> write,
                       before |-> IF \E f \in fingerprints : f.visitor_id = visitor_id
                                  THEN (CHOOSE f \in fingerprints :
                                           f.visitor_id = visitor_id).id
                                  ELSE "null",
                       data |-> up.data, n |-> 1]
    /\ UNCHANGED <<now, rlVars, logVars, request, touched, allowedAt>>

\* The insert of shortenUrl
createUrl(fp, role, write) ==
    /\ Len(SelectSeq(urls, LAMBDA u : u.created_at >= 0)) < MaxNewRows
    /\ \E ins \in {InsertUrl(fp, role, write)} :
          /\ urls' = ins.urls
          /\ fingerprints' = ins.fingerprints
          /\ touched' = IF ins.ok THEN UrlInsertUpdates(fingerprints, fp, role)
                        ELSE <<>>
    /\ UNCHANGED <<now, rlVars, url_visits, risk_logs, result, saved, request,
                   allowedAt>>

logUrlVisit(url_id, fp, referrer, role, write) ==
    /\ Len(SelectSeq(url_visits, LAMBDA v : v.visited_at >= 0)) < MaxNewRows
    /\ url_id \in 1..Len(urls)
    /\ \E ins \in {InsertVisit(url_id, fp, referrer, role, write)} :
          /\ url_visits' = ins.url_visits
          /\ urls' = ins.urls
          /\ fingerprints' = ins.fingerprints
          /\ touched' = IF ins.ok
                        THEN VisitInsertUpdates(fingerprints, urls, url_id, fp, role)
                        ELSE <<>>
    /\ UNCHANGED <<now, rlVars, risk_logs, result, saved, request,
                   allowedAt>>

logRiskEvent(fp, risk_type, severity, role, write) ==
    /\ Len(SelectSeq(risk_logs, LAMBDA r : r.created_at >= 0)) < MaxNewRows
    /\ \E ins \in {InsertRiskLog(fp, risk_type, severity, role, write)} :
          /\ risk_logs' = ins.risk_logs
          /\ fingerprints' = ins.fingerprints
          /\ touched' = IF ins.ok THEN RiskLogInsertUpdates(fingerprints, fp, role)
                        ELSE <<>>
    /\ UNCHANGED <<now, rlVars, urls, url_visits, result, saved, request,
                   allowedAt>>

\* reads: how the queries of the detectors end; write: how the insert of
\* logRiskEvent ends
performComprehensiveDetection(fp, role, reads, write) ==
    /\ result.n < MaxEvaluations
    /\ \E r \in {Evaluate(fp, role, reads)} :
       \E ins \in {InsertRiskLog(fp, "comprehensive_fraud_detection", r.severity,
                                 role, write)} :
          LET wrote == r.isSuspicious /\ ins.ok
          IN /\ result' = [fp |-> fp, isSuspicious |-> r.isSuspicious,
                           riskScore |-> r.riskScore, severity |-> r.severity,
                           mlScore |-> r.mlScore, patterns |-> r.patterns,
                           severities |-> r.severities, rules |-> r.rules,
                           logged |-> IF wrote THEN 1 ELSE 0, n |-> result.n + 1,
                           role |-> role, reads |-> reads, at |-> now,
                           url |-> ""]
             /\ risk_logs' = IF wrote THEN ins.risk_logs ELSE risk_logs
             /\ fingerprints' = IF wrote THEN ins.fingerprints ELSE fingerprints
    /\ UNCHANGED <<now, rlVars, urls, url_visits, clientVars>>

\* The URLs handed to performFraudDetection: an ordinary one, one of a
\* known shortener, and a long one with a run of more than 20 letters
CheckedUrls ==
    {"https://example.com/a", "https://bit.ly/x", "https://example.com/long"}

\* detectSuspiciousUrls: [riskScore, severity]
detectSuspiciousUrls(url) ==
    LET spamDomain == url = "https://bit.ly/x"
        suspiciousPatterns == IF url = "https://example.com/long" THEN 1 ELSE 0
        long == url = "https://example.com/long"
    IN [riskScore |-> (IF spamDomain THEN 2 ELSE 0) + suspiciousPatterns
                      + (IF long THEN 1 ELSE 0),
        severity |-> IF spamDomain THEN 2 ELSE 1]

RECURSIVE MaxSeverityOf(_)
MaxSeverityOf(logs) ==
    IF logs = <<>> THEN 1
    ELSE Max(Head(logs).severity, MaxSeverityOf(Tail(logs)))

\* A detector that adds 1 for the risk events of the last 24 hours, however
\* many there are
detectSuspiciousFingerprint_any_event(fp, role, reads) ==
    IF reads # "ok" THEN [riskScore |-> 0, severity |-> 1]
    ELSE LET riskLogs ==
                 SelectSeq(Visible(role, "risk_logs", risk_logs),
                           LAMBDA r : /\ r.fingerprint_id = fp
                                      /\ r.created_at >= now - 24 * 60 * 60)
         IN [riskScore |-> IF Len(riskLogs) > 0 THEN 1 ELSE 0,
             severity |-> MaxSeverityOf(riskLogs)]

\* detectSuspiciousFingerprint: [riskScore, severity]. A query that fails
\* returns no data and its test is skipped
detectSuspiciousFingerprint(fp, role, reads) ==
    IF reads # "ok" THEN [riskScore |-> 0, severity |-> 1]
    ELSE LET urlCount ==
                 Len(SelectSeq(Visible(role, "urls", urls),
                               LAMBDA u : u.fingerprint_id = fp))
             recentUrls ==
                 Len(SelectSeq(Visible(role, "urls", urls),
                               LAMBDA u : /\ u.fingerprint_id = fp
                                          /\ u.created_at >= now - 60 * 60))
             duplicateCount ==
                 Cardinality({f \in fingerprints : \E g \in fingerprints :
                                 g.id = fp /\ f.visitor_id = g.visitor_id})
             visitCount ==
                 Len(SelectSeq(Visible(role, "url_visits", url_visits),
                               LAMBDA v : /\ v.fingerprint_id = fp
                                          /\ v.visited_at >= now - 60 * 60))
             riskLogs ==
                 SelectSeq(Visible(role, "risk_logs", risk_logs),
                           LAMBDA r : /\ r.fingerprint_id = fp
                                      /\ r.created_at >= now - 24 * 60 * 60)
             findings == <<
                 Finding(urlCount > 10, 3, 3, "urls"),
                 Finding(urlCount > 5 /\ ~(urlCount > 10), 1, 1, "urls"),
                 Finding(recentUrls > 5, 2, 2, "recent_urls"),
                 Finding(duplicateCount > 1, 4, 4, "duplicates"),
                 Finding(visitCount > 50, 2, 2, "visits"),
                 Finding(Len(riskLogs) > 0, Len(riskLogs), MaxSeverityOf(riskLogs),
                         "risk_logs")>>
         IN [riskScore |-> SumScores(findings), severity |-> MaxSeverity(findings)]

\* performFraudDetection: the URL score and the identity score added up,
\* and a risk event logged when the sum is above 2
performFraudDetection(fp, url, role, reads, write) ==
    /\ result.n < MaxEvaluations
    /\ \E urlDetection \in {detectSuspiciousUrls(url)} :
       \E fingerprintDetection \in {detectSuspiciousFingerprint(fp, role, reads)} :
       \E combinedRiskScore \in
              {urlDetection.riskScore + fingerprintDetection.riskScore} :
       \E combinedSeverity \in
              {Max(urlDetection.severity, fingerprintDetection.severity)} :
       \E ins \in {InsertRiskLog(fp, "comprehensive_fraud_detection",
                                 combinedSeverity, role, write)} :
          LET wrote == combinedRiskScore > 2 /\ ins.ok
          IN /\ result' = [NoResult EXCEPT
                              !.fp = fp, !.isSuspicious = combinedRiskScore > 2,
                              !.riskScore = FromInt(combinedRiskScore),
                              !.severity = combinedSeverity,
                              !.rules = combinedRiskScore,
                              !.logged = IF wrote THEN 1 ELSE 0,
                              !.n = result.n + 1, !.role = role,
                              !.reads = reads, !.at = now, !.url = url]
             /\ risk_logs' = IF wrote THEN ins.risk_logs ELSE risk_logs
             /\ fingerprints' = IF wrote THEN ins.fingerprints ELSE fingerprints
    /\ UNCHANGED <<now, rlVars, urls, url_visits, clientVars>>

\* UPDATE urls SET click_count = ... WHERE id = url_id, with the trigger on
\* urls, on the given tables at time t: [ok, urls, fingerprints]
UpdateClickCountOn(fps, us0, vs, rls, url_id, click_count, role, write, t) ==
    LET us == [i \in 1..Len(us0) |->
                 IF us0[i].id = url_id
                 THEN [us0[i] EXCEPT !.click_count = click_count] ELSE us0[i]]
        trg == update_risk_score(fps, us, vs, rls, us0[url_id].fingerprint_id,
                                 role, t)
        ok == /\ write = "ok"
              /\ Policy(role, "urls", "UPDATE")
              /\ trg.ok
    IN IF ok THEN [ok |-> TRUE, urls |-> us, fingerprints |-> trg.fps]
       ELSE [ok |-> FALSE, urls |-> us0, fingerprints |-> fps]

\* checkForSuspiciousActivity on the tables after the URL was inserted:
\* [risk_logs, fingerprints]. A failed logRiskEvent returns false and an
\* exception is caught
checkForSuspiciousActivity(fps, us, vs, rls, fp, isSpam, role, reads, write, t) ==
    LET spam == IF isSpam
                THEN InsertRiskLogOn(fps, us, vs, rls, fp, "spam_attempt", 2,
                                     role, write, t)
                ELSE [ok |-> FALSE, risk_logs |-> rls, fingerprints |-> fps]
        urlCount == IF reads # "ok" THEN 0
                    ELSE Len(SelectSeq(Visible(role, "urls", us),
                                       LAMBDA u : u.fingerprint_id = fp))
        many == IF urlCount > 5
                THEN InsertRiskLogOn(spam.fingerprints, us, vs, spam.risk_logs,
                                     fp, "multiple_urls", 3, role, write, t)
                ELSE spam
    IN [risk_logs |-> many.risk_logs, fingerprints |-> many.fingerprints]

\* shortenUrl of the page whose identity is fp ("null": none). rpc, write,
\* reads: how the rate-limit call, the inserts and the count query end
shortenUrl(fp, isSpam, role, rpc, write, reads) ==
    LET res == IF rpc = "error"
               THEN [status |-> "error", data |-> FALSE, rl |-> rate_limits]
               ELSE check_rate_limit(fingerprints, rate_limits, fp, "url_creation",
                                     DefaultMaxAttempts, DefaultWindowMinutes, now)
        call == Returned(fp, "url_creation", DefaultMaxAttempts,
                         DefaultWindowMinutes, now, rpc, res)
    IN IF fp = "null"
       THEN \* shortened locally, nothing is saved
            /\ request.n < MaxRequests
            /\ request' = [NoRequest EXCEPT !.kind = "shorten", !.done = TRUE,
                                            !.n = request.n + 1]
            /\ UNCHANGED <<now, fingerprints, rlVars, logVars, saved, touched,
                           allowedAt>>
       ELSE /\ request.n < MaxRequests
            /\ CallBudget(fp, "url_creation")
            /\ Len(SelectSeq(urls, LAMBDA u : u.created_at >= 0)) < MaxNewRows
            /\ rate_limits' = res.rl
            /\ ret' = call
            /\ hist' = IF call.ran /\ <<fp, "url_creation">> \in Keys
                       THEN [hist EXCEPT ![<<fp, "url_creation">>] =
                               Record(@, res.data, DefaultMaxAttempts,
                                      DefaultWindowMinutes, now)]
                       ELSE hist
            /\ allowedAt' = IF call.ran /\ <<fp, "url_creation">> \in Keys
                            THEN [allowedAt EXCEPT ![<<fp, "url_creation">>] =
                                    Slide(@, res.data, DefaultWindowMinutes, now)]
                            ELSE allowedAt
            /\ \E ins \in {IF call.allowed
                            THEN InsertUrlOn(fingerprints, urls, url_visits,
                                             risk_logs, fp, role, write, now)
                            ELSE [ok |-> FALSE, urls |-> urls,
                                  fingerprints |-> fingerprints]} :
               \E after \in {IF ins.ok
                              THEN checkForSuspiciousActivity(
                                      ins.fingerprints, ins.urls, url_visits,
                                      risk_logs, fp, isSpam, role, reads, write, now)
                              ELSE [risk_logs |-> risk_logs,
                                    fingerprints |-> ins.fingerprints]} :
                  /\ urls' = ins.urls
                  /\ risk_logs' = after.risk_logs
                  /\ fingerprints' = after.fingerprints
                  /\ request' = [kind |-> "shorten", fp |-> fp, checked |-> TRUE,
                                 allowed |-> call.allowed, created |-> ins.ok,
                                 visited |-> FALSE, found |-> FALSE,
                                 done |-> ins.ok, n |-> request.n + 1]
            /\ UNCHANGED <<now, customLimits, procs, url_visits, result, saved,
                           touched>>

\* handleRedirect of RedirectHandler for the URL url_id, opened by a visitor
\* with the given signals. lookup, save, visit, click: how the four store
\* calls end
handleRedirect(url_id, visitor_id, device_info, role, lookup, save, visit, click) ==
    /\ request.n < MaxRequests
    /\ url_id \in 1..Len(urls)
    /\ Len(SelectSeq(url_visits, LAMBDA v : v.visited_at >= 0)) < MaxNewRows
    /\ IF lookup # "ok" \/ ~Policy(role, "urls", "SELECT")
       THEN \* URL not found
            /\ request' = [NoRequest EXCEPT !.kind = "redirect",
                                            !.n = request.n + 1]
            /\ UNCHANGED <<now, fingerprints, rlVars, logVars, saved, touched,
                           allowedAt>>
       ELSE \E up \in {UpsertFingerprint(fingerprints, visitor_id, device_info,
                                        PlainBrowser, role, save)} :
            \E ins \in {IF up.data = "null"
                        THEN [ok |-> TRUE, url_visits |-> url_visits,
                              urls |-> urls, fingerprints |-> up.fingerprints]
                        ELSE InsertVisitOn(up.fingerprints, urls, url_visits,
                                           risk_logs, url_id, up.data, "", role,
                                           visit, now)} :
            \* logUrlVisit throws when the insert fails: the catch shows an
            \* error and neither the click count nor the location is set
            \E upd \in {IF ins.ok
                        THEN UpdateClickCountOn(ins.fingerprints, ins.urls,
                                                ins.url_visits, risk_logs, url_id,
                                                urls[url_id].click_count + 1,
                                                role, click, now)
                        ELSE [ok |-> FALSE, urls |-> ins.urls,
                              fingerprints |-> ins.fingerprints]} :
               /\ fingerprints' = upd.fingerprints
               /\ urls' = upd.urls
               /\ url_visits' = ins.url_visits
               /\ saved' = [visitor_id |-> visitor_id, write |-> save,
                            before |-> IF \E f \in fingerprints :
                                             f.visitor_id = visitor_id
                                       THEN (CHOOSE f \in fingerprints :
                                                f.visitor_id = visitor_id).id
                                       ELSE "null",
                            data |-> up.data, n |-> 1]
               /\ request' = [kind |-> "redirect", fp |-> up.data,
                              checked |-> FALSE, allowed |-> FALSE,
                              created |-> FALSE,
                              visited |-> up.data # "null" /\ ins.ok,
                              found |-> TRUE, done |-> ins.ok,
                              n |-> request.n + 1]
               /\ UNCHANGED <<now, rlVars, risk_logs, result, touched, allowedAt>>

----------------------------------------------------------------------------
(* Stores to start from *)

\* n rows of the identity, the last one made `last` seconds before time 0
\* and each `gap` seconds after the one before
UrlHistory(fp, n, gap, last) ==
    [i \in 1..n |-> [id |-> i, fingerprint_id |-> fp,
                     created_at |-> 0 - last - (n - i) * gap, click_count |-> 0]]

\* The rows of the identity made at the given times
UrlsAt(fp, times) ==
    [i \in 1..Len(times) |-> [id |-> i, fingerprint_id |-> fp,
                              created_at |-> times[i], click_count |-> 0]]

VisitHistory(fp, n, gap, last, referrer) ==
    [i \in 1..n |-> [url_id |-> 1, fingerprint_id |-> fp,
                     visited_at |-> 0 - last - (n - i) * gap,
                     referrer |-> referrer]]

RiskHistory(fp, n, last) ==
    [i \in 1..n |-> [fingerprint_id |-> fp,
                     risk_type |-> "comprehensive_fraud_detection",
                     severity |-> 2, created_at |-> 0 - last]]

\* Other identities whose device signature equals that of PlainDevice
SimilarDevices ==
    {[Fingerprint(id) EXCEPT !.device_info.canvas = PlainDevice.canvas] :
        id \in {"g1", "g2", "g3"}}

\* webdriver, phantom, selenium, headless, automation
BotFlags ==
    {<<FALSE, FALSE, FALSE, FALSE, FALSE>>, <<TRUE, FALSE, FALSE, FALSE, FALSE>>,
     <<FALSE, FALSE, FALSE, TRUE, FALSE>>, <<TRUE, TRUE, FALSE, FALSE, FALSE>>,
     <<FALSE, FALSE, FALSE, TRUE, TRUE>>, <<TRUE, TRUE, TRUE, FALSE, FALSE>>,
     <<TRUE, TRUE, TRUE, TRUE, FALSE>>, <<TRUE, TRUE, TRUE, TRUE, TRUE>>}

\* mobile, touchSupport, platform, userAgent, plugins
FormFactors ==
    {<<FALSE, FALSE, "Win32", "Chrome", "some">>,
     <<TRUE, TRUE, "Win32", "Chrome", "empty">>}

DeviceInfos ==
    {[PlainDevice EXCEPT !.webdriver = b[1], !.phantom = b[2],
                         !.selenium = b[3], !.headless = b[4],
                         !.automation = b[5],
                         !.hardwareConcurrency = hw, !.deviceMemory = mem,
                         !.mobile = ff[1], !.touchSupport = ff[2],
                         !.platform = ff[3], !.userAgent = ff[4],
                         !.plugins = ff[5], !.screenResolution = res] :
        b \in BotFlags,
        hw \in {Undefined, Null, Num(0), Num(4)},
        mem \in {Undefined, Num(0), Num(8)},
        ff \in FormFactors,
        res \in Resolutions}

BrowserInfos ==
    {NoBrowserInfo, [PlainBrowser EXCEPT !.capabilities = NoCapabilities]} \cup
    {[PlainBrowser EXCEPT !.capabilities = Capabilities(c[1], c[2], c[3], c[4])] :
        c \in {<<TRUE, TRUE, TRUE, TRUE>>, <<FALSE, FALSE, TRUE, TRUE>>,
               <<TRUE, TRUE, FALSE, TRUE>>, <<FALSE, FALSE, FALSE, FALSE>>}}

\* A few devices for the stores with a history
SomeDevices ==
    {PlainDevice,
     NoDeviceInfo,
     [PlainDevice EXCEPT !.webdriver = TRUE, !.hardwareConcurrency = Num(0),
                         !.deviceMemory = Num(0)],
     [PlainDevice EXCEPT !.hardwareConcurrency = Undefined,
                         !.deviceMemory = Undefined]}

UrlHistories ==
    {<<>>, UrlHistory("f1", 6, 120, 60), UrlHistory("f1", 4, 30, 60),
     UrlHistory("f1", 11, 120, 60), UrlHistory("f1", 25, 60, 60),
     \* two URLs half a minute apart, and a quarter of an hour later three
     UrlsAt("f1", <<0 - 2030, 0 - 2000, 0 - 1060, 0 - 1030, 0 - 1000>>)}

VisitHistories ==
    {<<>>, VisitHistory("f1", 1, 60, 60, "ref"), VisitHistory("f1", 7, 2, 60, ""),
     VisitHistory("f1", 101, 60, 60, "ref")}

----------------------------------------------------------------------------
(* The risk aggregator evaluated on a store *)

\* Either every device on an empty store, or a few devices on every history
InitDetect ==
    /\ now = 0
    /\ \/ /\ \E d \in DeviceInfos \cup {NoDeviceInfo}, b \in BrowserInfos :
                fingerprints = {[Fingerprint("f1") EXCEPT !.device_info = d,
                                                          !.browser_info = b]}
          /\ urls = <<>>
          /\ url_visits = <<>>
       \/ /\ \E d \in SomeDevices, others \in {{}, SimilarDevices} :
                fingerprints = {[Fingerprint("f1") EXCEPT !.device_info = d]}
                               \cup others
          /\ urls \in UrlHistories
          /\ url_visits \in VisitHistories
          /\ url_visits # <<>> => urls # <<>>
    /\ risk_logs = <<>>
    /\ result = NoResult
    /\ rate_limits = {}
    /\ customLimits = NoLimits
    /\ ret = NoCall
    /\ hist = [k \in Keys |-> NoHist]
    /\ procs = [p \in ProcIds |-> Idle]
    /\ saved = NoSaved
    /\ request = NoRequest
    /\ touched = <<>>
    /\ allowedAt = [k \in Keys |-> <<>>]

NextDetect ==
    \E fp \in FpIds, role \in Roles, reads \in StoreOutcomes, write \in StoreOutcomes :
        /\ result.n = 0
        /\ performComprehensiveDetection(fp, role, reads, write)

SpecDetect == InitDetect /\ [][NextDetect]_vars

----------------------------------------------------------------------------
(* The store under the operations of the client *)

RiskHistories == {<<>>, RiskHistory("f1", 3, 60)}

StoreUrlHistories == {<<>>, UrlHistory("f1", 5, 120, 60), UrlHistory("f1", 20, 120, 60)}

StoreVisitHistories == {<<>>, VisitHistory("f1", 50, 60, 60, "ref")}

StoreDevices == {[PlainDevice EXCEPT !.webdriver = TRUE]}

\* The risk score a store sets out with: what the trigger computed after
\* the last insert of an authenticated client, or the 0 that was never
\* updated because every client was anonymous
InitStore ==
    /\ now = 0
    /\ urls \in StoreUrlHistories
    /\ url_visits \in StoreVisitHistories
    /\ url_visits # <<>> => urls # <<>>
    /\ risk_logs \in RiskHistories
    /\ \E d \in StoreDevices, role \in Roles :
          LET f == [Fingerprint("f1") EXCEPT !.device_info = d]
          IN fingerprints =
                {[f EXCEPT !.risk_score =
                     IF role = "anon" THEN 0
                     ELSE calculate_risk_score({f}, urls, url_visits, risk_logs,
                                               "f1", role, now)]}
    /\ result = NoResult
    /\ rate_limits = {}
    /\ customLimits = NoLimits
    /\ ret = NoCall
    /\ hist = [k \in Keys |-> NoHist]
    /\ procs = [p \in ProcIds |-> Idle]
    /\ saved = NoSaved
    /\ request = NoRequest
    /\ touched = <<>>
    /\ allowedAt = [k \in Keys |-> <<>>]

NextStore ==
    \/ Tick
    \/ \E v \in FpIds, d \in StoreDevices, role \in Roles :
          saveFingerprint(v, d, PlainBrowser, role, "ok")
    \/ \E fp \in FpIds, role \in Roles, write \in StoreOutcomes :
          createUrl(fp, role, write)
    \/ \E u \in {1, Len(urls)}, fp \in FpIds, ref \in {"ref"}, role \in Roles,
          write \in StoreOutcomes :
          logUrlVisit(u, fp, ref, role, write)
    \/ \E fp \in FpIds, role \in Roles, write \in StoreOutcomes :
          logRiskEvent(fp, "spam_attempt", 2, role, write)

SpecStore == InitStore /\ [][NextStore]_vars

\* C7: in every state of the store, after any sequence of fingerprint
\* upserts, URL creations, visits and risk-event inserts, the risk_score of
\* every identity is between 0 and 10
C7_StoredRiskScoreInRange ==
    \A f \in fingerprints : f.risk_score >= 0 /\ f.risk_score <= 10

\* the factors of an identity add up to more than 10 and its stored score,
\* written by the trigger, is 10
C7_Witness ==
    \E f \in fingerprints :
        /\ f.risk_score = 10
        /\ calculate_risk_score_raw(fingerprints, urls, url_visits, risk_logs,
                                    f.id, "authenticated", now) > 10
        /\ \E i \in 1..Len(risk_logs) : risk_logs[i].created_at >= 0

----------------------------------------------------------------------------
(* Claims about the risk aggregator (SpecDetect) *)

Evaluated == result.n > 0

\* x <= y on doubles
FLe(x, y) == ~FGt(x, y)

\* C6: whatever the detectors find, the riskScore returned by
\* performComprehensiveDetection is between 0 and 10 and the returned
\* mlScore is between 0 and 1
C6_ScoresInRange ==
    Evaluated =>
        /\ FLe(FromInt(0), result.riskScore) /\ FLe(result.riskScore, FromInt(10))
        /\ FLe(FromInt(0), result.mlScore) /\ FLe(result.mlScore, FromInt(1))

\* the rule detectors alone add up to more than 10 and the anomaly score
\* was cut to 1: both clamps acted
C6_Witness ==
    /\ Evaluated
    /\ result.rules > 10 /\ result.riskScore = FromInt(10)
    /\ result.mlScore = FromInt(1)
    /\ "webdriver" \in result.patterns /\ "automation" \in result.patterns

C9_SeverityIsMax ==
    Evaluated =>
        /\ \A i \in 1..5 : result.severity >= result.severities[i]
        /\ \E i \in 1..5 : result.severity = result.severities[i]
        /\ result.severity >= 1 /\ result.severity <= 5

\* one detector found severity 2, another severity 4, the result has 4
C9_Witness ==
    /\ Evaluated
    /\ \E i, j \in 1..5 : result.severities[i] = 2 /\ result.severities[j] = 4
    /\ result.severity = 4

\* C10: a run of the aggregator adds exactly one row to risk_logs when its
\* result is suspicious and none when it is not
C10_OneEventIffSuspicious ==
    [][result'.n = result.n + 1 =>
          Len(risk_logs') = Len(risk_logs) + (IF result'.isSuspicious THEN 1 ELSE 0)]_vars

----------------------------------------------------------------------------
(* The risk aggregator evaluated again, while the clock runs *)

InitRepeat ==
    /\ now = 0
    /\ \E d \in SomeDevices, others \in {{}, SimilarDevices} :
          fingerprints = {[Fingerprint("f1") EXCEPT !.device_info = d]} \cup others
    /\ urls \in UrlHistories
    /\ url_visits \in VisitHistories
    /\ url_visits # <<>> => urls # <<>>
    /\ risk_logs = <<>>
    /\ result = NoResult
    /\ rate_limits = {}
    /\ customLimits = NoLimits
    /\ ret = NoCall
    /\ hist = [k \in Keys |-> NoHist]
    /\ procs = [p \in ProcIds |-> Idle]
    /\ saved = NoSaved
    /\ request = NoRequest
    /\ touched = <<>>
    /\ allowedAt = [k \in Keys |-> <<>>]

NextRepeat ==
    \/ Tick
    \/ \E fp \in FpIds, role \in Roles, reads \in StoreOutcomes,
          write \in StoreOutcomes :
          performComprehensiveDetection(fp, role, reads, write)

SpecRepeat == InitRepeat /\ [][NextRepeat]_vars

\* The fields of a FraudResult; reasons go with patterns and confidence is
\* min(riskScore / 10, 1)
SameResult(r1, r2) ==
    /\ r1.isSuspicious = r2.isSuspicious
    /\ r1.riskScore = r2.riskScore
    /\ r1.severity = r2.severity
    /\ r1.patterns = r2.patterns
    /\ r1.mlScore = r2.mlScore

\* An evaluation that follows an evaluation of the same identity by the
\* same client, both with their queries answered; nothing else writes to
\* the store between the two
EvaluatedAgain ==
    /\ result.n >= 1 /\ result'.n = result.n + 1
    /\ result'.fp = result.fp /\ result'.role = result.role
    /\ result.reads = "ok" /\ result'.reads = "ok"

\* C11 as stated: evaluating the same identity twice with no tracked action
\* or signal change in between yields an identical result. Violated: the
\* detectors count the rows of the last hour and of the last 24 hours, so
\* the result changes when the clock moves on
C11_SameResultTwice ==
    [][EvaluatedAgain => SameResult(result, result')]_vars

\* C11 amended: two evaluations of the same identity at the same reading of
\* the clock, with no tracked action or signal change in between, yield an
\* identical result, also when the first one wrote a RiskEvent
C11_SameResultAtSameTime ==
    [][EvaluatedAgain /\ result'.at = result.at => SameResult(result, result')]_vars

\* two evaluations of one identity at one time, both suspicious, each of
\* which wrote its RiskEvent
C11_Witness ==
    /\ result.n = 2 /\ result.isSuspicious /\ result.reads = "ok"
    /\ Len(risk_logs) = 2
    /\ \A i \in 1..2 : /\ risk_logs[i].fingerprint_id = result.fp
                        /\ risk_logs[i].created_at = result.at
    /\ \E f \in fingerprints : f.id = result.fp /\ f.risk_score > 0

----------------------------------------------------------------------------
(* What a suspicious evaluation leaves in the identity (SpecDetect) *)

\* C12: after a suspicious evaluation that wrote its RiskEvent, the stored
\* risk_score and ml_anomaly_score (hundredths) of the identity equal the
\* riskScore and the mlScore of the result. Violated: the aggregator writes
\* nothing to fingerprints; the trigger on risk_logs stores the score of
\* calculate_risk_score, another formula, and nothing calls
\* update_ml_anomaly_score
C12_StoredScoresEqualResult ==
    (Evaluated /\ result.isSuspicious /\ result.logged = 1) =>
        \A f \in fingerprints :
            f.id = result.fp =>
                /\ FromInt(f.risk_score) = result.riskScore
                /\ FromInt(f.ml_anomaly_score) = FMul(100, result.mlScore)

----------------------------------------------------------------------------
(* The stored score after a write (SpecStore) *)

\* The step records a URL, a visit or a risk event of the identity
RecordedFor(fp) ==
    \/ Len(urls') > Len(urls) /\ urls'[Len(urls')].fingerprint_id = fp
    \/ Len(url_visits') > Len(url_visits)
          /\ url_visits'[Len(url_visits')].fingerprint_id = fp
    \/ Len(risk_logs') > Len(risk_logs)
          /\ risk_logs'[Len(risk_logs')].fingerprint_id = fp

\* C13: whenever a URL creation, a visit or a risk event is recorded for an
\* identity, its stored risk_score right after the write is the score
\* computed from the history that includes the new record. Violated: the
\* trigger runs with the rights of the caller, and the public client may
\* not update fingerprints, so its record is stored and the score is not
\* refreshed
C13_ScoreRefreshedWithWrite ==
    [][\A fp \in FpIds :
          RecordedFor(fp) =>
              \A f \in fingerprints' :
                  f.id = fp =>
                      f.risk_score =
                          calculate_risk_score(fingerprints', urls', url_visits',
                                               risk_logs', fp, "authenticated",
                                               now')]_vars

----------------------------------------------------------------------------
(* Identities (SpecStore) *)

\* C14: submitting signals whose visitor_id is already stored returns the
\* existing identity with its id; no second record is made for a
\* visitor_id. Violated: the upsert of the public client, which may not
\* update fingerprints, is refused, and saveFingerprint returns null
C14_ExistingIdentityReturned ==
    /\ (saved.n = 1 /\ saved.write = "ok" /\ saved.before # "null") =>
           saved.data = saved.before
    /\ \A f, g \in fingerprints : f.visitor_id = g.visitor_id => f = g

----------------------------------------------------------------------------
(* The pages: URL creation and redirect *)

InitPages ==
    /\ now = 0
    /\ fingerprints = {Fingerprint("f1")}
    /\ urls \in {UrlHistory("f1", 1, 120, 60), UrlHistory("f1", 6, 120, 60)}
    /\ url_visits = <<>>
    /\ risk_logs = <<>>
    /\ result = NoResult
    /\ rate_limits = {}
    /\ customLimits = NoLimits
    /\ ret = NoCall
    /\ hist = [k \in Keys |-> NoHist]
    /\ procs = [p \in ProcIds |-> Idle]
    /\ saved = NoSaved
    /\ request = NoRequest
    /\ touched = <<>>
    /\ allowedAt = [k \in Keys |-> <<>>]

NextPages ==
    \/ Tick
    \/ \E fp \in {"f1", "null"}, isSpam \in BOOLEAN, role \in Roles,
          rpc \in RpcOutcomes, write \in StoreOutcomes, reads \in StoreOutcomes :
          shortenUrl(fp, isSpam, role, rpc, write, reads)
    \/ \E visitor_id \in FpIds, role \in Roles, lookup \in StoreOutcomes,
          save \in StoreOutcomes, visit \in StoreOutcomes, click \in StoreOutcomes :
          handleRedirect(1, visitor_id, PlainDevice, role, lookup, save, visit, click)

SpecPages == InitPages /\ [][NextPages]_vars

\* C16: a failure of the fraud evaluation or of the tracking never blocks
\* the action: a URL creation whose record was written completes, and a
\* redirect whose URL was found sends the visitor on. Violated: in
\* handleRedirect the exception of logUrlVisit reaches the outer catch,
\* which shows an error instead of setting the location
C16_TrackingNeverBlocks ==
    /\ (request.kind = "shorten" /\ request.created) => request.done
    /\ (request.kind = "redirect" /\ request.found) => request.done

----------------------------------------------------------------------------
(* The rate limiter called with any action type *)

\* action types a caller may pass: the parameter is a free string
AnyActionTypes == {"url_creation", "login"}

InitActionTypes ==
    /\ now = 0
    /\ fingerprints = {Fingerprint("f1")}
    /\ rate_limits = {}
    /\ customLimits \in {NoLimits} \cup
          [maxAttempts : 0..MaxCustomAttempts, windowMinutes : {DefaultWindowMinutes}]
    /\ ret = NoCall
    /\ hist = [k \in Keys |-> NoHist]
    /\ procs = [p \in ProcIds |-> Idle]
    /\ urls = <<>>
    /\ url_visits = <<>>
    /\ risk_logs = <<>>
    /\ result = NoResult
    /\ saved = NoSaved
    /\ request = NoRequest
    /\ touched = <<>>
    /\ allowedAt = [k \in Keys |-> <<>>]

NextActionTypes ==
    \/ Tick
    \/ \E fp \in FpIds, at \in AnyActionTypes, rpc \in RpcOutcomes :
          checkRateLimit(fp, at, rpc)
    \/ \E fp \in FpIds, at \in AnyActionTypes, rpc \in RpcOutcomes :
          checkAdvancedRateLimit(fp, at, rpc)

SpecActionTypes == InitActionTypes /\ [][NextActionTypes]_vars

\* C17: a rate-limit check with an action type outside the enumerated set
\* does not return allow, fails as an error whenever the limit lets it
\* reach the insert, and creates, changes and deletes no rate_limits row
C17_InvalidActionTypeRejected ==
    [][(now' = now /\ ret'.at \notin ActionTypes) =>
          /\ ~ret'.allowed
          /\ ret'.max > 0 => ret'.failed
          /\ rate_limits' = rate_limits]_vars

\* a call with an unknown action type was refused as an error while the
\* table holds the window of a known one
C17_Witness ==
    /\ ret.at \notin ActionTypes /\ ret.failed /\ ~ret.allowed /\ ret.max > 0
    /\ \E r \in rate_limits : r.action_type = "url_creation" /\ r.attempts >= 2

----------------------------------------------------------------------------
(* A scenario of the risk aggregator (SpecDetect) *)

\* The evaluated identity has hardwareConcurrency 0, deviceMemory 0 and
\* webdriver set, and 25 of its URLs were created in the last hour
BotWith25Urls ==
    /\ Evaluated /\ result.reads = "ok"
    /\ \E f \in fingerprints :
          /\ f.id = result.fp
          /\ f.device_info.present /\ f.device_info.webdriver
          /\ f.device_info.hardwareConcurrency = Num(0)
          /\ f.device_info.deviceMemory = Num(0)
    /\ Len(SelectSeq(urls, LAMBDA u : /\ u.fingerprint_id = result.fp
                                      /\ u.created_at >= result.at - 60 * 60)) = 25

\* C18: for an identity with hardwareConcurrency 0, deviceMemory 0,
\* webdriver true and 25 URL creations in the last hour the aggregator
\* returns riskScore 10, severity 4 and isSuspicious, and reports the
\* extreme-velocity and the webdriver finding
C18_BotScenario ==
    BotWith25Urls =>
        /\ result.riskScore = FromInt(10)
        /\ result.severity = 4
        /\ result.isSuspicious
        /\ {"extreme_velocity", "webdriver"} \subseteq result.patterns

\* the scenario was evaluated and the sum before the clamp was above 10
C18_Witness ==
    /\ BotWith25Urls
    /\ result.rules > 10 /\ result.riskScore = FromInt(10)
    /\ "extreme_velocity" \in result.patterns

----------------------------------------------------------------------------
(* The rate limiter in front of the tracked actions (SpecPages) *)

\* C19: no URL record and no visit record is written unless the request
\* that writes it asked the rate limiter for that identity first and was
\* allowed. Violated: handleRedirect writes the visit without any
\* rate-limit check; nothing in the repository asks for 'url_visit'
C19_TrackedActionsAreGated ==
    [][(Len(urls') > Len(urls) \/ Len(url_visits') > Len(url_visits)) =>
          /\ request'.checked /\ request'.allowed
          /\ Len(urls') > Len(urls) =>
                urls'[Len(urls')].fingerprint_id = request'.fp
          /\ Len(url_visits') > Len(url_visits) =>
                url_visits'[Len(url_visits')].fingerprint_id = request'.fp]_vars

----------------------------------------------------------------------------
(* URL creations running concurrently: each is one transaction at READ     *)
(* COMMITTED, the INSERT followed by its trigger. A query of the trigger    *)
(* sees the committed rows and the transaction's own; its UPDATE of the     *)
(* identity waits for the transaction that holds the row and is then        *)
(* computed anew on what is committed by then.                              *)

\* The URL row of the transaction, with the id it gets among the rows us
OwnRow(p, us) ==
    [id |-> Len(us) + 1, fingerprint_id |-> procs[p].fp,
     created_at |-> procs[p].t, click_count |-> 0]

\* The identity row of the transaction is locked by another one
IdentityHeld(p) ==
    \E q \in ProcIds \ {p} :
        procs[q].pc = "updated" /\ procs[q].locked /\ procs[q].fp = procs[p].fp

\* INSERT INTO urls: the row is not committed yet
BeginInsert(p, fp, role) ==
    /\ procs[p].pc = "idle"
    /\ FingerprintExists(fingerprints, fp)
    /\ Policy(role, "urls", "INSERT")
    /\ procs' = [procs EXCEPT ![p] =
                   [pc |-> "inserted", fp |-> fp, role |-> role, t |-> now,
                    locked |-> FALSE, score |-> 0,
                    overlapped |-> \E q \in ProcIds \ {p} :
                                     procs[q].pc \in {"inserted", "updated"}]]
    /\ UNCHANGED <<now, fingerprints, rate_limits, customLimits, ret, hist,
                   logVars, clientVars>>

\* The trigger: UPDATE fingerprints SET risk_score = calculate_risk_score(..)
TriggerUpdate(p) ==
    /\ procs[p].pc = "inserted"
    /\ ~IdentityHeld(p)
    /\ LET trg == update_risk_score(fingerprints, Append(urls, OwnRow(p, urls)),
                                    url_visits, risk_logs, procs[p].fp,
                                    procs[p].role, procs[p].t)
           mine == CHOOSE f \in trg.fps : f.id = procs[p].fp
       IN procs' = [procs EXCEPT ![p].pc = "updated",
                                 ![p].locked =
                                     Policy(procs[p].role, "fingerprints", "UPDATE"),
                                 ![p].score = mine.risk_score]
    /\ UNCHANGED <<now, fingerprints, rate_limits, customLimits, ret, hist,
                   logVars, clientVars>>

\* COMMIT: the row and the score become visible together
CommitInsert(p) ==
    /\ procs[p].pc = "updated"
    /\ urls' = Append(urls, OwnRow(p, urls))
    /\ fingerprints' =
          {IF f.id = procs[p].fp /\ procs[p].locked
           THEN [f EXCEPT !.risk_score = procs[p].score] ELSE f :
              f \in fingerprints}
    /\ procs' = [procs EXCEPT ![p].pc = "committed", ![p].locked = FALSE]
    /\ UNCHANGED <<now, rate_limits, customLimits, ret, hist, url_visits,
                   risk_logs, result, clientVars>>

\* The store before the two requests, its score computed by the trigger of
\* an authenticated client
InitConcurrentWrites ==
    /\ now = 0
    /\ urls \in {<<>>, UrlHistory("f1", 4, 120, 60), UrlHistory("f1", 9, 120, 60),
                 UrlHistory("f1", 19, 120, 60)}
    /\ url_visits \in {<<>>, VisitHistory("f1", 51, 60, 60, "ref")}
    /\ url_visits # <<>> => urls # <<>>
    /\ risk_logs \in RiskHistories
    /\ fingerprints =
          {[Fingerprint("f1") EXCEPT !.risk_score =
               calculate_risk_score({Fingerprint("f1")}, urls, url_visits,
                                    risk_logs, "f1", "authenticated", now)]}
    /\ result = NoResult
    /\ rate_limits = {}
    /\ customLimits = NoLimits
    /\ ret = NoCall
    /\ hist = [k \in Keys |-> NoHist]
    /\ procs = [p \in ProcIds |-> Idle]
    /\ saved = NoSaved
    /\ request = NoRequest
    /\ touched = <<>>
    /\ allowedAt = [k \in Keys |-> <<>>]

NextConcurrentWrites ==
    \/ \E p \in ProcIds, role \in Roles : BeginInsert(p, "f1", role)
    \/ \E p \in ProcIds : TriggerUpdate(p)
    \/ \E p \in ProcIds : CommitInsert(p)

SpecConcurrentWrites == InitConcurrentWrites /\ [][NextConcurrentWrites]_vars

\* C20: when two URL creations of one identity ran at the same time and
\* both have committed, the stored risk_score is the score of the history
\* that holds both. Violated because of the defect of C13: the trigger of a
\* public client updates no row, so the score stays what it was
C20_NoLostScoreUpdate ==
    (/\ \A p \in ProcIds : procs[p].pc = "committed"
     /\ \E p \in ProcIds : procs[p].overlapped) =>
        \A f \in fingerprints :
            f.risk_score = calculate_risk_score(fingerprints, urls, url_visits,
                                                risk_logs, f.id, "authenticated",
                                                now)

----------------------------------------------------------------------------
(* The identity rows a recording updates (SpecStore) *)

\* C21: recording one URL creation, one visit or one risk event updates the
\* row of the acting identity exactly once and no other identity row.
\* Violated: an INSERT INTO urls or url_visits fires two triggers that each
\* update the row; a visit also updates the row of the identity that owns
\* the URL; the triggers of a public client update nothing
C21_OneIdentityUpdatePerRecord ==
    [][\A fp \in FpIds :
          RecordedFor(fp) => touched' = <<fp>>]_vars

----------------------------------------------------------------------------
(* The rate limiter around a window boundary: a window of one minute, the   *)
(* clock read to the second, the calls made one after another               *)

\* The times at which calls are made, in seconds: around the boundary of
\* the window that a call at time 0, 1 or 2 opens
BurstTimes == {0, 1, 2, 58, 59, 60, 61, 62}

\* The clock runs on to the time of the next call
Wait(t) ==
    /\ t > now
    /\ now' = t
    /\ UNCHANGED <<fingerprints, rlVars, logVars, clientVars>>

InitBurst ==
    /\ now = 0
    /\ fingerprints = {Fingerprint("f1")}
    /\ rate_limits = {}
    /\ customLimits \in [maxAttempts : 1..MaxCustomAttempts, windowMinutes : {1}]
    /\ ret = NoCall
    /\ hist = [k \in Keys |-> NoHist]
    /\ procs = [p \in ProcIds |-> Idle]
    /\ urls = <<>>
    /\ url_visits = <<>>
    /\ risk_logs = <<>>
    /\ result = NoResult
    /\ saved = NoSaved
    /\ request = NoRequest
    /\ touched = <<>>
    /\ allowedAt = [k \in Keys |-> <<>>]

NextBurst ==
    \/ \E t \in BurstTimes : Wait(t)
    \/ \E rpc \in RpcOutcomes : checkAdvancedRateLimit("f1", "url_creation", rpc)

SpecBurst == InitBurst /\ [][NextBurst]_vars

\* The calls of a client: at most 2 * max + 1 of them, in the order of time
CallTimes(max) ==
    {times \in UNION {[1..n -> BurstTimes] : n \in 1..(2 * max + 1)} :
        \A i \in 1..(Len(times) - 1) : times[i] <= times[i + 1]}

\* The largest number of calls, among those made at the given times for the
\* key f1/url_creation, that returned true within a span shorter than the
\* window
RECURSIVE LargestBurst(_, _, _, _, _, _)
LargestBurst(fps, rl, slid, times, max, win) ==
    IF times = <<>> THEN Len(slid)
    ELSE LET res == check_rate_limit(fps, rl, "f1", "url_creation", max, win,
                                     Head(times))
         IN Max(Len(slid),
                LargestBurst(fps, res.rl, Slide(slid, res.data, win, Head(times)),
                             Tail(times), max, win))

----------------------------------------------------------------------------
(* The returned score as a whole number (SpecDetect) *)

\* C23: the riskScore returned by the risk aggregator is a whole number in
\* 0..10, whatever the detectors and the anomaly score contribute.
\* Violated: the total is the sum of the rule scores and 5 times the
\* anomaly score, a multiple of 0.1, and nothing rounds it
C23_RiskScoreIsWhole ==
    Evaluated =>
        \E n \in 0..10 : result.riskScore = FromInt(n)

----------------------------------------------------------------------------
(* The burst pattern of the velocity detector (SpecDetect) *)

\* How many timestamps in a row, ending with row i, lie less than a minute
\* from the one before
RECURSIVE RunEndingAt(_, _)
RunEndingAt(rows, i) ==
    IF i = 1 THEN 1
    ELSE IF rows[i].created_at - rows[i - 1].created_at < 60
         THEN RunEndingAt(rows, i - 1) + 1
         ELSE 1

\* The URLs of the evaluated identity in the hour before the evaluation, in
\* the order of their times
EvaluatedUrls ==
    SelectSeq(urls, LAMBDA u : /\ u.fingerprint_id = result.fp
                              /\ u.created_at >= result.at - 60 * 60)

\* C24: the velocity detector reports burst_pattern exactly when the URL
\* creations of the last hour contain at least 4 consecutive timestamps
\* whose successive gaps are all under 60 seconds. Violated: the detector
\* counts the gaps under a minute wherever they are, the 0 it puts for the
\* first row included, so three short gaps that are not consecutive
\* trigger it
C24_BurstIffFourConsecutive ==
    (Evaluated /\ result.reads = "ok") =>
        ("burst_pattern" \in result.patterns <=>
            \E i \in 1..Len(EvaluatedUrls) : RunEndingAt(EvaluatedUrls, i) >= 4)

----------------------------------------------------------------------------
(* Missing hardware fields (SpecDetect) *)

\* C25: the bot detector reports missing hardware concurrency and missing
\* device memory whenever the stored value is 0, null or absent, the
\* values the anomaly score takes for 0. Violated: the bot detector tests
\* === 0 || === null, which an absent field (undefined) does not meet
C25_AbsentCountsAsMissing ==
    (Evaluated /\ result.reads = "ok") =>
        \A f \in fingerprints :
            (f.id = result.fp /\ f.device_info.present) =>
                /\ "missing_hardware" \in result.patterns <=>
                       OrZero(f.device_info.hardwareConcurrency) = 0
                /\ "missing_memory" \in result.patterns <=>
                       OrZero(f.device_info.deviceMemory) = 0

----------------------------------------------------------------------------
(* Storage support (SpecDetect) *)

\* C26: the device-anomaly detector reports no_storage only when both
\* localStorage and sessionStorage are unsupported. Violated: the test is
\* !caps.localStorage || !caps.sessionStorage, met when one of them lacks
C26_NoStorageNeedsBoth ==
    (Evaluated /\ "no_storage" \in result.patterns) =>
        \A f \in fingerprints :
            f.id = result.fp =>
                /\ ~f.browser_info.capabilities.localStorage
                /\ ~f.browser_info.capabilities.sessionStorage

----------------------------------------------------------------------------
(* The rows of rate_limits after a call (SpecRateLimit) *)

\* UNIQUE (fingerprint_id, action_type)
OneRowPerKey(rl) ==
    \A r1, r2 \in rl :
        (r1.fingerprint_id = r2.fingerprint_id /\ r1.action_type = r2.action_type)
            => r1 = r2

\* C27 as stated: there is at most one row per key, and right after each
\* call for a key its row, if there is one, has 1 <= attempts <=
\* maxAttempts and a window_start not older than windowMinutes. Violated:
\* maxAttempts is a parameter of the call, and a call that is refused
\* leaves the row as it is, with the attempts that calls with a larger
\* limit have counted
C27_RowWithinLimits ==
    [][CallRan =>
          /\ OneRowPerKey(rate_limits')
          /\ \A r \in RowsOf(rate_limits', ret'.fp, ret'.at) :
                /\ 1 <= r.attempts /\ r.attempts <= ret'.max
                /\ r.window_start >= now - Minute * ret'.win]_vars

\* C27 amended: there is at most one row per key, and right after each
\* call for a key its row, if there is one, has attempts >= 1 and a
\* window_start not older than windowMinutes; after a call that returned
\* true it has attempts <= maxAttempts
C27_RowWithinLimitsWhenAllowed ==
    [][CallRan =>
          /\ OneRowPerKey(rate_limits')
          /\ \A r \in RowsOf(rate_limits', ret'.fp, ret'.at) :
                /\ 1 <= r.attempts
                /\ ret'.data => r.attempts <= ret'.max
                /\ r.window_start >= now - Minute * ret'.win]_vars

\* a call with the custom limit was refused and left the row with the
\* larger number of attempts that calls with the default limit had counted,
\* in a window opened after time 0
C27_Witness ==
    /\ ret.ran /\ ~ret.data /\ ret.t = now /\ now > 0
    /\ ret.max < DefaultMaxAttempts
    /\ \E r \in RowsOf(rate_limits, ret.fp, ret.at) :
          /\ r.attempts > ret.max
          /\ r.window_start = now

----------------------------------------------------------------------------
(* The stored score under saveFingerprint (SpecStore) *)

\* C28: submitting the signals of a known identity again leaves its stored
\* risk_score as it is: a step that records no URL, no visit and no risk
\* event changes the risk_score of no identity. Violated: the record that
\* saveFingerprint upserts names risk_score: 0, and ON CONFLICT DO UPDATE
\* writes it over the stored score
C28_ResubmitKeepsScore ==
    [][UNCHANGED <<urls, url_visits, risk_logs>> =>
          \A f \in fingerprints : \A g \in fingerprints' :
              f.id = g.id => g.risk_score = f.risk_score]_vars

----------------------------------------------------------------------------
(* performFraudDetection evaluated again, while the clock runs *)

InitFraud ==
    /\ now = 0
    /\ fingerprints = {Fingerprint("f1")}
    /\ urls \in {<<>>, UrlHistory("f1", 6, 120, 60), UrlHistory("f1", 11, 120, 60)}
    /\ url_visits \in {<<>>, VisitHistory("f1", 51, 60, 60, "ref")}
    /\ url_visits # <<>> => urls # <<>>
    /\ risk_logs \in RiskHistories
    /\ result = NoResult
    /\ rate_limits = {}
    /\ customLimits = NoLimits
    /\ ret = NoCall
    /\ hist = [k \in Keys |-> NoHist]
    /\ procs = [p \in ProcIds |-> Idle]
    /\ saved = NoSaved
    /\ request = NoRequest
    /\ touched = <<>>
    /\ allowedAt = [k \in Keys |-> <<>>]

NextFraud ==
    \/ Tick
    \/ \E fp \in FpIds, url \in CheckedUrls, role \in Roles,
          reads \in StoreOutcomes, write \in StoreOutcomes :
          performFraudDetection(fp, url, role, reads, write)

SpecFraud == InitFraud /\ [][NextFraud]_vars

\* An evaluation of the same identity and URL by the same client that
\* follows a suspicious one within 24 hours, both with their queries
\* answered; nothing else writes to the store between the two
SuspiciousEvaluatedAgain ==
    /\ EvaluatedAgain /\ result.isSuspicious
    /\ result'.url = result.url
    /\ result'.at - result.at < 24 * 60 * 60

\* C29 as stated: after a suspicious evaluation, repeating it within 24
\* hours with no other activity returns a riskScore exactly 1 higher.
\* Violated: the public client can neither write nor read risk_logs, so its
\* score stays; and when the clock has moved, URLs and visits have left
\* the last hour and the score can fall
C29_OneHigherEachTime ==
    [][SuspiciousEvaluatedAgain => result'.rules = result.rules + 1]_vars

\* C29 amended: at the same reading of the clock the repeated evaluation
\* returns a riskScore higher by the number of RiskEvents the evaluation
\* before it wrote: 1 when its insert was accepted, 0 when it was not
C29_HigherByEventsWritten ==
    [][(SuspiciousEvaluatedAgain /\ result'.at = result.at) =>
          result'.rules = result.rules + result.logged]_vars

\* the second of two suspicious evaluations at one time, each of which
\* wrote its RiskEvent, returned a riskScore above 10
C29_Witness ==
    /\ result.n = 2 /\ result.logged = 1 /\ result.reads = "ok"
    /\ result.rules > 10
    /\ Len(SelectSeq(risk_logs, LAMBDA r : r.created_at = result.at)) = 2

----------------------------------------------------------------------------
(* Redirects of one short URL running concurrently: a redirect reads the   *)
(* URL row, logs the visit and writes the click count, each an awaited     *)
(* call to the store and a transaction of its own. Every call is answered. *)

\* The redirect of RedirectHandler ("page") and of the redirect-url
\* function ("edge"), which holds the public key
Handlers == {"page", "edge"}

\* What a redirect knows as the visitor: the page the identity of
\* getOrCreateFingerprint, "null" when it has none; the function the
\* header x-fingerprint-id, which names a stored identity or not
VisitorsOf(handler) == IF handler = "page" THEN {"f1", "null"} ELSE {"f1", "f2"}

NoRedirect == [pc |-> "idle", handler |-> "page", role |-> "anon", fp |-> "null",
               click_count |-> 0, started |-> 0, redirected |-> 0]

\* .from('url_visits').insert(..) of the function, which asks for no row
\* back: [ok, url_visits, urls, fingerprints], with the triggers of the
\* table as in InsertVisitOn
InsertVisitPlainOn(fps, us0, vs0, rls, url_id, fp, role, t) ==
    LET vs == Append(vs0, [url_id |-> url_id, fingerprint_id |-> fp,
                           visited_at |-> t, referrer |-> ""])
        trg1 == update_risk_score(fps, us0, vs, rls, fp, role, t)
        us == [i \in 1..Len(us0) |->
                 IF us0[i].id = url_id /\ Policy(role, "urls", "UPDATE")
                 THEN [us0[i] EXCEPT !.click_count = @ + 1] ELSE us0[i]]
        trg2 == IF Policy(role, "urls", "UPDATE")
                THEN update_risk_score(trg1.fps, us, vs, rls,
                                       us0[url_id].fingerprint_id, role, t)
                ELSE trg1
        ok == /\ Policy(role, "url_visits", "INSERT")
              /\ url_id \in 1..Len(us0)
              /\ FingerprintExists(fps, fp)
              /\ trg1.ok /\ trg2.ok
    IN IF ok THEN [ok |-> TRUE, url_visits |-> vs, urls |-> us,
                   fingerprints |-> trg2.fps]
       ELSE [ok |-> FALSE, url_visits |-> vs0, urls |-> us0,
             fingerprints |-> fps]

\* .from('urls').select('*').eq('short_code', shortCode).single(): the
\* redirect holds the row as it is now
LookupUrl(p, handler, role, fp) ==
    /\ procs[p].pc = "idle"
    /\ procs[p].started < MaxRedirects
    /\ handler = "edge" => role = "anon"
    /\ fp \in VisitorsOf(handler)
    /\ Policy(role, "urls", "SELECT")
    /\ procs' = [procs EXCEPT ![p] =
                   [@ EXCEPT !.pc = "found", !.handler = handler,
                             !.role = role, !.fp = fp,
                             !.click_count = urls[1].click_count,
                             !.started = @ + 1]]
    /\ UNCHANGED <<now, fingerprints, rate_limits, customLimits, ret, hist,
                   logVars, clientVars>>

\* The visit is logged. The page logs none without an identity and stops
\* with an error when logUrlVisit throws; the function goes on
LogVisit(p) ==
    /\ procs[p].pc = "found"
    /\ \E ins \in {IF procs[p].handler = "page"
                   THEN IF procs[p].fp = "null"
                        THEN [ok |-> TRUE, url_visits |-> url_visits,
                              urls |-> urls, fingerprints |-> fingerprints]
                        ELSE InsertVisitOn(fingerprints, urls, url_visits,
                                           risk_logs, 1, procs[p].fp, "",
                                           procs[p].role, "ok", now)
                   ELSE InsertVisitPlainOn(fingerprints, urls, url_visits,
                                           risk_logs, 1, procs[p].fp,
                                           procs[p].role, now)} :
          /\ url_visits' = ins.url_visits
          /\ urls' = ins.urls
          /\ fingerprints' = ins.fingerprints
          /\ procs' = [procs EXCEPT ![p].pc =
                         IF procs[p].handler = "page" /\ ~ins.ok
                         THEN "idle" ELSE "visited"]
    /\ UNCHANGED <<now, rate_limits, customLimits, ret, hist, risk_logs,
                   result, clientVars>>

\* .update({ click_count: urlData.click_count + 1 }) with the count the
\* redirect read, then the visitor is sent on
UpdateClickCount(p) ==
    /\ procs[p].pc = "visited"
    /\ \E upd \in {UpdateClickCountOn(fingerprints, urls, url_visits, risk_logs,
                                     1, procs[p].click_count + 1,
                                     procs[p].role, "ok", now)} :
          /\ urls' = upd.urls
          /\ fingerprints' = upd.fingerprints
    /\ procs' = [procs EXCEPT ![p].pc = "idle", ![p].redirected = @ + 1]
    /\ UNCHANGED <<now, rate_limits, customLimits, ret, hist, url_visits,
                   risk_logs, result, clientVars>>

InitRedirects ==
    /\ now = 0
    /\ fingerprints = {Fingerprint("f1")}
    /\ urls = UrlsAt("f1", <<0 - 3600>>)
    /\ url_visits = <<>>
    /\ risk_logs = <<>>
    /\ result = NoResult
    /\ rate_limits = {}
    /\ customLimits = NoLimits
    /\ ret = NoCall
    /\ hist = [k \in Keys |-> NoHist]
    /\ procs = [p \in ProcIds |-> NoRedirect]
    /\ saved = NoSaved
    /\ request = NoRequest
    /\ touched = <<>>
    /\ allowedAt = [k \in Keys |-> <<>>]

NextRedirects ==
    \/ \E p \in ProcIds, handler \in Handlers, role \in Roles, fp \in FpIds \cup {"null"} :
          LookupUrl(p, handler, role, fp)
    \/ \E p \in ProcIds : LogVisit(p)
    \/ \E p \in ProcIds : UpdateClickCount(p)

SpecRedirects == InitRedirects /\ [][NextRedirects]_vars

\* How many redirects the processes of S have performed
RECURSIVE RedirectsPerformed(_)
RedirectsPerformed(S) ==
    IF S = {} THEN 0
    ELSE LET p == CHOOSE q \in S : TRUE
         IN procs[p].redirected + RedirectsPerformed(S \ {p})

\* C30: whenever no redirect of the short URL is under way, its
\* click_count, 0 at the start, is the number of redirects performed, in
\* whatever order the steps of the redirects ran. Violated: each redirect
\* writes the count it read plus one, so of two redirects that read the
\* same count only one is counted
C30_ClickCountIsRedirects ==
    (\A p \in ProcIds : procs[p].pc = "idle") =>
        urls[1].click_count = RedirectsPerformed(ProcIds)

====
